---- MODULE Spec2Model ----
(***************************************************************************)
(* Truck Shop Finder bot: the add-shop wizard (src/flows/addShop.ts), the  *)
(* conversation state in Deno KV (src/kv.ts), the event dispatch of        *)
(* src/main.ts, the geocoding client (src/geocode.ts) and the Google       *)
(* Sheets client (src/sheets.ts).                                          *)
(*                                                                         *)
(* A JavaScript string is a sequence of pieces (mostly single characters); *)
(* the string is the concatenation of its pieces.  A handler is a pure     *)
(* operator from the world it reads (the conversation state of the key,    *)
(* the sheet, the caches) and its input to the world it leaves and the     *)
(* list of effects it emitted; an action applies one handler to one event. *)
(***************************************************************************)
EXTENDS Integers, Sequences, FiniteSets, TLC

VARIABLES
  kvState,     \* Deno KV ["state", chatId, userId] -> FlowState, per key
  sheet,       \* the rows of the Google Sheet tab, header row first
  shopsCache,  \* Deno KV ["sheet","shops","rows"]: the cached parsed rows
  geoCache,    \* Deno KV ["geocode", kind, normalizedKey] -> GeocodeResult
  userAgent,   \* env NOMINATIM_USER_AGENT is set
  ev,          \* the update handled last: whose, a text or a button, and
               \* what the outside services answered while it was handled
  out,         \* the effects of the event handled last, in order
  searchCache, \* Deno KV ["search","results",chatId,userId] -> {results, query}
  ret,         \* the value returned by the function called last, where a
               \* specification calls a function directly
  clock,       \* Date.now(), in ms
  lastNominatimRequestMs,  \* the module variable of src/geocode.ts
  callers,     \* where each caller of nominatimSearch stands
  lookups      \* the outbound provider lookups: their start and end times

\* the time of the provider lookups, followed in SpecThrottle
throttleVars == <<clock, lastNominatimRequestMs, callers, lookups>>

vars == <<kvState, sheet, shopsCache, geoCache, userAgent, ev, out, searchCache, ret,
          throttleVars>>

----------------------------------------------------------------------------
(* Bounds of the model *)

\* how many of the STAFF_TYPES buttons the participant presses
NumStaff == 1
\* how many of the SERVICES buttons the participant presses
NumServices == 1
\* the page arguments run from -MaxPage to MaxPage
MaxPage == 3
\* the sheets searched hold up to MaxFound shops within the radius
MaxFound == 3
\* the result sets paged hold up to MaxShops results
MaxShops == 21
\* the proximity computation is applied to lists of up to MaxList rows
MaxList == 3
\* the concurrent callers of the geocoding client
NumCallers == 2
\* the outbound lookups followed in one run
MaxLookups == 3
\* the clock advances by TickMs up to MaxClock
TickMs == 550
MaxClock == 4400
\* the sheet is followed up to MaxRows rows
MaxRows == 4

----------------------------------------------------------------------------
(* Strings *)

Whitespace == {" "}

RECURSIVE TrimStart(_)
TrimStart(s) ==
  IF s # <<>> /\ Head(s) \in Whitespace THEN TrimStart(Tail(s)) ELSE s

RECURSIVE TrimEnd(_)
TrimEnd(s) ==
  IF s # <<>> /\ s[Len(s)] \in Whitespace
  THEN TrimEnd(SubSeq(s, 1, Len(s) - 1))
  ELSE s

\* String.prototype.trim
\* the text as sent, untrimmed
NoTrim(s) == s

Trim(s) == TrimEnd(TrimStart(s))

LowerLetters ==
  <<"a","b","c","d","e","f","g","h","i","j","k","l","m",
    "n","o","p","q","r","s","t","u","v","w","x","y","z">>

UpperLetters ==
  <<"A","B","C","D","E","F","G","H","I","J","K","L","M",
    "N","O","P","Q","R","S","T","U","V","W","X","Y","Z">>

IsUpper(c) == \E i \in 1..Len(UpperLetters) : UpperLetters[i] = c

IsLower(c) == \E i \in 1..Len(LowerLetters) : LowerLetters[i] = c

UpperChar(c) ==
  IF IsLower(c)
  THEN UpperLetters[CHOOSE i \in 1..Len(LowerLetters) : LowerLetters[i] = c]
  ELSE c

LowerChar(c) ==
  IF IsUpper(c)
  THEN LowerLetters[CHOOSE i \in 1..Len(UpperLetters) : UpperLetters[i] = c]
  ELSE c

\* the upper case of one character: the sharp s becomes two letters
UpperOf(c) == IF c = "ß" THEN <<"S", "S">> ELSE <<UpperChar(c)>>

\* String.prototype.toUpperCase
RECURSIVE ToUpperCase(_)
ToUpperCase(s) ==
  IF s = <<>> THEN <<>> ELSE UpperOf(Head(s)) \o ToUpperCase(Tail(s))

\* String.prototype.toLowerCase
ToLowerCase(s) == [i \in 1..Len(s) |-> LowerChar(s[i])]

\* Array.prototype.join
RECURSIVE Join(_, _)
Join(parts, sep) ==
  IF parts = <<>> THEN <<>>
  ELSE IF Len(parts) = 1 THEN parts[1]
  ELSE parts[1] \o sep \o Join(Tail(parts), sep)

Digits == <<"0","1","2","3","4","5","6","7","8","9">>

RECURSIVE NatToString(_)
NatToString(n) ==
  IF n < 10 THEN <<Digits[n + 1]>>
  ELSE NatToString(n \div 10) \o <<Digits[(n % 10) + 1]>>

\* String(n) of an integer
NumToString(n) == IF n < 0 THEN <<"-">> \o NatToString(0 - n) ELSE NatToString(n)

----------------------------------------------------------------------------
(* src/types.ts *)

STAFF_TYPES == <<"Russians", "Uzbeks", "Americans", "Mixed/Other">>

SERVICES ==
  <<"Tires", "Oil", "Engine", "Transmission", "Electrical", "Body", "Tow", "Other">>

AddStep ==
  {"shopName", "address", "city", "state", "phone", "contactPerson",
   "staffType", "services", "notes", "confirm", "editField"}

\* no value under the key
NoState == [flow |-> "none"]

SearchState == [flow |-> "search", step |-> "awaitQuery"]

\* the draft {} of a new add flow
EmptyData == [f \in {} |-> <<>>]

AddState(step, data, services) ==
  [flow |-> "add", step |-> step, data |-> data, servicesSelected |-> services]

\* an assignment that drops the other fields
OnlyField(data, k, v) == [f \in {k} |-> v]

\* state.data[k] = v
SetField(data, k, v) ==
  [f \in (DOMAIN data) \cup {k} |-> IF f = k THEN v ELSE data[f]]

\* !state.data[k]
Falsy(data, k) == k \notin DOMAIN data \/ data[k] = <<>>

\* state.data[k] ?? ""
OrEmpty(data, k) == IF k \in DOMAIN data THEN data[k] ELSE <<>>

----------------------------------------------------------------------------
(* Effects a handler emits, in the order it emits them *)

SetEff == <<"setFlowState">>
ClearEff == <<"clearFlowState">>
\* ctx.answerCallbackQuery() answers the query of the pressed button
Answer(data) == <<"answerCallbackQuery", data.p, data.a>>
Reply(what) == <<"reply">> \o what

GeocodeEff == <<"geocodeAddress">>
GeocodeCityStateEff == <<"geocodeCityState">>
GetAllShopsEff == <<"getAllShops">>
StoreResultsEff == <<"storeResults">>
LoadResultsEff == <<"loadStoredResults">>
FetchEff == <<"fetch nominatim">>
AppendEff == <<"appendShopRow">>
ThrowEff == <<"throw">>

\* what a handler leaves: the world, its effects, whether it handled the
\* event (its boolean result) and whether it ended by throwing
Res(w, st, effects) ==
  [st |-> st, sheet |-> w.sheet, shopsCache |-> w.shopsCache,
   geoCache |-> w.geoCache, search |-> w.search, out |-> effects,
   handled |-> TRUE, threw |-> FALSE]

NotHandled(w, effects) == [Res(w, w.st, effects) EXCEPT !.handled = FALSE]

----------------------------------------------------------------------------
(* src/kv.ts: the value under ["state", chatId, userId] after the call *)

\* a delete that leaves the value in place
keepFlowState(old) == old

setFlowState(old, state) == state

clearFlowState(old) == NoState

----------------------------------------------------------------------------
(* src/flows/addShop.ts *)

isValidState(s) == Len(s) = 2 /\ IsUpper(s[1]) /\ IsUpper(s[2])

\* a normalization that keeps the case
keepCase(s) == Trim(s)

normalizeState(s) == ToUpperCase(Trim(s))

promptForStep(st) == Reply(<<"prompt", st.step>>)

FreshAddState == AddState("shopName", EmptyData, <<>>)

\* a start that keeps the draft of the flow it interrupts
startAddShopKeepingDraft(w) ==
  Res(w, IF w.st.flow = "add" THEN [w.st EXCEPT !.step = "shopName"] ELSE FreshAddState,
      <<SetEff, Reply(<<"Add a new shop (wizard)">>), promptForStep(FreshAddState)>>)

startAddShop(w) ==
  Res(w, setFlowState(w.st, FreshAddState),
      <<SetEff, Reply(<<"Add a new shop (wizard)">>), promptForStep(FreshAddState)>>)

\* the steps whose text must be non-empty
RequiredTextSteps == {"shopName", "address", "city", "phone", "contactPerson"}

\* an order that skips the city
SkipStep(step) ==
  CASE step = "shopName" -> "address"
    [] step = "address" -> "state"
    [] step = "city" -> "state"
    [] step = "state" -> "phone"
    [] step = "phone" -> "contactPerson"
    [] step = "contactPerson" -> "staffType"
    [] step = "notes" -> "confirm"

\* state.step = ... of each case of handleAddShopText
NextStep(step) ==
  CASE step = "shopName" -> "address"
    [] step = "address" -> "city"
    [] step = "city" -> "state"
    [] step = "state" -> "phone"
    [] step = "phone" -> "contactPerson"
    [] step = "contactPerson" -> "staffType"
    [] step = "notes" -> "confirm"

\* state.data.<field> = v; state.step = <next>; setFlowState; promptForStep
AcceptText(w, field, v) ==
  LET st2 == [w.st EXCEPT !.data = SetField(w.st.data, field, v),
                          !.step = NextStep(w.st.step)]
  IN Res(w, setFlowState(w.st, st2), <<SetEff, promptForStep(st2)>>)

handleAddShopText(w, text) ==
  LET st == w.st
      t == Trim(text)
  IN CASE st.step \in RequiredTextSteps ->
            IF t = <<>>
            THEN Res(w, st, <<Reply(<<"cannot be empty", st.step>>)>>)
            ELSE AcceptText(w, st.step, t)
       [] st.step = "state" ->
            IF ~isValidState(normalizeState(t))
            THEN Res(w, st, <<Reply(<<"State must be 2 letters", "state">>)>>)
            ELSE AcceptText(w, "state", normalizeState(t))
       [] st.step = "notes" ->
            AcceptText(w, "notes", IF t = <<"-">> THEN <<>> ELSE t)
       [] OTHER -> NotHandled(w, <<>>)

----------------------------------------------------------------------------
(* src/geocode.ts *)

\* String.prototype.replace(/\s+/g, " ")
RECURSIVE CollapseWhitespace(_)
CollapseWhitespace(s) ==
  IF s = <<>> THEN <<>>
  ELSE IF Head(s) \in Whitespace
       THEN <<" ">> \o CollapseWhitespace(TrimStart(s))
       ELSE <<Head(s)>> \o CollapseWhitespace(Tail(s))

\* a key that keeps the case and the inner whitespace
trimmedKey(s) == Trim(s)

normalizeKey(s) == CollapseWhitespace(ToLowerCase(Trim(s)))

\* a GeocodeResult | null, or the error thrown
GeoResult(c) == [kind |-> "geo", lat |-> c[1], lng |-> c[2], err |-> <<>>]
GeoNull == [kind |-> "null", lat |-> 0, lng |-> 0, err |-> <<>>]
GeoThrew(e) == [kind |-> "threw", lat |-> 0, lng |-> 0, err |-> e]

\* what the provider answers to one request
ProviderAnswers ==
  {[kind |-> "ok", c |-> <<32, -96>>],
   [kind |-> "empty", c |-> <<0, 0>>],
   [kind |-> "non200", c |-> <<0, 0>>],
   [kind |-> "nonfinite", c |-> <<0, 0>>],
   [kind |-> "network error", c |-> <<0, 0>>]}

\* the result, and the effects (the outbound fetch, when one is issued)
nominatimSearch(ua, q, answer) ==
  IF ~ua
  THEN [res |-> GeoThrew(<<"Error: NOMINATIM_USER_AGENT env var is required">>),
        out |-> <<>>]
  ELSE [res |-> CASE answer.kind = "network error" ->
                       GeoThrew(<<"TypeError: error sending request">>)
                  [] answer.kind \in {"non200", "empty", "nonfinite"} -> GeoNull
                  [] answer.kind = "ok" -> GeoResult(answer.c),
        out |-> <<FetchEff>>]

\* a cache that also keeps the null results
CacheAnyResult(call, cache, key, r) ==
  [res |-> r.res,
   geoCache |-> IF r.res.kind # "threw"
                THEN [k \in (DOMAIN cache) \cup {key} |->
                        IF k = key THEN r.res ELSE cache[k]]
                ELSE cache,
   out |-> <<call>> \o r.out]

\* if (result) await setCache(kv, key, result, ttl); return result
CacheResult(call, cache, key, r) ==
  [res |-> r.res,
   geoCache |-> IF r.res.kind = "geo"
                THEN [k \in (DOMAIN cache) \cup {key} |->
                        IF k = key THEN r.res ELSE cache[k]]
                ELSE cache,
   out |-> <<call>> \o r.out]

\* call is the effect that records which of the two functions was called
GeocodeWithKey(call, cache, ua, key, q, answer) ==
  IF key \in DOMAIN cache
  THEN [res |-> cache[key], geoCache |-> cache, out |-> <<call>>]
  ELSE CacheResult(call, cache, key, nominatimSearch(ua, q, answer))

\* [res, geoCache, out]
geocodeAddress(cache, ua, address, answer) ==
  GeocodeWithKey(GeocodeEff, cache, ua, <<"address", normalizeKey(address)>>,
                 address, answer)

\* const q = `${city}, ${state}, USA`
CityStateQuery(city, state) == city \o <<",", " ">> \o state \o <<",", " ", "USA">>

\* [res, geoCache, out]
geocodeCityState(cache, ua, city, state, answer) ==
  GeocodeWithKey(GeocodeCityStateEff, cache, ua,
                 <<"citystate", normalizeKey(CityStateQuery(city, state))>>,
                 CityStateQuery(city, state), answer)

----------------------------------------------------------------------------
(* src/sheets.ts *)

HEADER ==
  << <<"createdAtISO">>, <<"shopName">>, <<"address">>, <<"city">>, <<"state">>,
     <<"phone">>, <<"contactPerson">>, <<"staffType">>, <<"servicesCSV">>,
     <<"notes">>, <<"lat">>, <<"lng">> >>

NoCache == [present |-> FALSE, rows |-> <<>>]

\* no result set stored under the key (never stored, or expired)
NoResults == [present |-> FALSE, results |-> <<>>, query |-> <<>>]

\* what the Sheets API (token exchange included) does to the requests of
\* one call: all succeed, or the named request fails
ApiAnswers == {"ok", "read fails", "update fails", "append fails"}

\* the first row of the sheet: values[0] ?? []
FirstRow(sh) == IF Len(sh) > 0 THEN sh[1] ELSE <<>>

\* updateValues(kv, "A1:L1", [HEADER])
WithHeader(sh) == IF Len(sh) > 0 THEN [sh EXCEPT ![1] = HEADER] ELSE <<HEADER>>

\* the requests to the Sheets API
ReadHeaderReq == <<"readValues", "A1:L1">>
UpdateHeaderReq == <<"updateValues", "A1:L1">>
ReadRowsReq == <<"readValues", "A:L">>
AppendReq == <<"append", "A:L">>

\* [threw, sheet, reqs]: reqs are the requests issued, in order
ensureHeaderRow(sh, api) ==
  IF api = "read fails" THEN [threw |-> TRUE, sheet |-> sh, reqs |-> <<ReadHeaderReq>>]
  ELSE IF Len(FirstRow(sh)) = 0
       THEN IF api = "update fails"
            THEN [threw |-> TRUE, sheet |-> sh,
                  reqs |-> <<ReadHeaderReq, UpdateHeaderReq>>]
            ELSE [threw |-> FALSE, sheet |-> WithHeader(sh),
                  reqs |-> <<ReadHeaderReq, UpdateHeaderReq>>]
       ELSE IF Join(FirstRow(sh), <<"|">>) # Join(HEADER, <<"|">>)
            THEN [threw |-> TRUE, sheet |-> sh, reqs |-> <<ReadHeaderReq>>]
            ELSE [threw |-> FALSE, sheet |-> sh, reqs |-> <<ReadHeaderReq>>]

\* an append that leaves the cached rows in place
AppendKeepingCache(h, cache, row, api) ==
  IF h.threw \/ api = "append fails"
  THEN [threw |-> TRUE, sheet |-> h.sheet, shopsCache |-> cache, reqs |-> h.reqs]
  ELSE [threw |-> FALSE, sheet |-> Append(h.sheet, row), shopsCache |-> cache,
        reqs |-> h.reqs \o <<AppendReq>>]

\* the append request and the invalidation, after ensureHeaderRow gave h
AppendAfterHeader(h, cache, row, api) ==
  IF h.threw
  THEN [threw |-> TRUE, sheet |-> h.sheet, shopsCache |-> cache, reqs |-> h.reqs]
  ELSE IF api = "append fails"
  THEN [threw |-> TRUE, sheet |-> h.sheet, shopsCache |-> cache,
        reqs |-> h.reqs \o <<AppendReq>>]
  ELSE [threw |-> FALSE, sheet |-> Append(h.sheet, row), shopsCache |-> NoCache,
        reqs |-> h.reqs \o <<AppendReq>>]

\* [threw, sheet, shopsCache, reqs]
appendShopRow(sh, cache, row, api) ==
  IF Len(row) # 12
  THEN [threw |-> TRUE, sheet |-> sh, shopsCache |-> cache, reqs |-> <<>>]
  ELSE AppendAfterHeader(ensureHeaderRow(sh, api), cache, row, api)

\* Number(s) for the cells of the model, which hold whole numbers: the
\* digits of s, read after trimming, with an optional sign
RECURSIVE DigitsValue(_)
DigitsValue(s) ==
  IF s = <<>> THEN 0
  ELSE 10 * DigitsValue(SubSeq(s, 1, Len(s) - 1))
         + (CHOOSE d \in 0..9 : Digits[d + 1] = s[Len(s)])

IsDigits(s) == s # <<>> /\ \A i \in 1..Len(s) : \E d \in 1..10 : Digits[d] = s[i]

\* [finite, n]: Number("") is 0, and a text that is no number gives NaN
NumberOf(s) ==
  CASE Trim(s) = <<>> -> [finite |-> TRUE, n |-> 0]
    [] IsDigits(Trim(s)) -> [finite |-> TRUE, n |-> DigitsValue(Trim(s))]
    [] Head(Trim(s)) = "-" /\ IsDigits(Tail(Trim(s))) ->
         [finite |-> TRUE, n |-> 0 - DigitsValue(Tail(Trim(s)))]
    [] OTHER -> [finite |-> FALSE, n |-> 0]

\* row[i] ?? "" (i counts from 0 in the source, from 1 here)
CellOr(row, i) == IF i <= Len(row) THEN row[i] ELSE <<>>

\* a parse that takes Number("") = 0 for the coordinate of an empty cell
CoordinateOrZero(raw) ==
  IF NumberOf(raw).finite
  THEN [null |-> FALSE, n |-> NumberOf(raw).n]
  ELSE [null |-> TRUE, n |-> 0]

\* latRaw ? Number(latRaw) : null, then Number.isFinite(lat) ? lat : null
Coordinate(raw) ==
  IF raw # <<>> /\ NumberOf(raw).finite
  THEN [null |-> FALSE, n |-> NumberOf(raw).n]
  ELSE [null |-> TRUE, n |-> 0]

\* the rows parseRow skips: empty rows and the header row
SkippedRow(row) == Len(row) = 0 \/ row[1] = <<"createdAtISO">>

parseRow(row) ==
  [createdAtISO |-> CellOr(row, 1), shopName |-> CellOr(row, 2),
   address |-> CellOr(row, 3), city |-> CellOr(row, 4), state |-> CellOr(row, 5),
   phone |-> CellOr(row, 6), contactPerson |-> CellOr(row, 7),
   staffType |-> CellOr(row, 8), servicesCSV |-> CellOr(row, 9),
   notes |-> CellOr(row, 10),
   lat |-> Coordinate(CellOr(row, 11)), lng |-> Coordinate(CellOr(row, 12))]

\* for (const r of values) { const parsed = parseRow(r); if (parsed) rows.push(parsed) }
RECURSIVE ParseRows(_)
ParseRows(values) ==
  IF values = <<>> THEN <<>>
  ELSE (IF SkippedRow(Head(values)) THEN <<>> ELSE <<parseRow(Head(values))>>)
         \o ParseRows(Tail(values))

\* the read of A:L, the parse and the setCache, after ensureHeaderRow gave h
ReadAfterHeader(h, cache, api) ==
  IF h.threw
  THEN [threw |-> TRUE, rows |-> <<>>, sheet |-> h.sheet, shopsCache |-> cache,
        reqs |-> h.reqs]
  ELSE IF api = "rows read fails"
  THEN [threw |-> TRUE, rows |-> <<>>, sheet |-> h.sheet, shopsCache |-> cache,
        reqs |-> h.reqs \o <<ReadRowsReq>>]
  ELSE [threw |-> FALSE, rows |-> ParseRows(h.sheet), sheet |-> h.sheet,
        shopsCache |-> [present |-> TRUE, rows |-> ParseRows(h.sheet)],
        reqs |-> h.reqs \o <<ReadRowsReq>>]

\* [threw, rows, sheet, shopsCache, reqs]
getAllShops(sh, cache, api) ==
  IF cache.present
  THEN [threw |-> FALSE, rows |-> cache.rows, sheet |-> sh, shopsCache |-> cache,
        reqs |-> <<>>]
  ELSE ReadAfterHeader(ensureHeaderRow(sh, api), cache, api)

\* the rows below the header row
DataRows(sh) == IF Len(sh) > 0 THEN Tail(sh) ELSE <<>>

----------------------------------------------------------------------------
(* src/flows/addShop.ts: save and the button events *)

\* a validation that does not ask for the staff type
RequiredWithoutStaffType ==
  <<"shopName", "address", "city", "state", "phone", "contactPerson">>

Required ==
  <<"shopName", "address", "city", "state", "phone", "contactPerson", "staffType">>

WarnFailed == <<"WARNING: Geocoding failed; lat/lng left empty.">>

WarnError(e) == <<"WARNING: Geocoding error; lat/lng left empty. (">> \o e \o <<")">>

\* a save that drops the warning
NotesOnly(notes, warn) == notes

\* notes ? `${notes} | ${warn}` : warn
WithWarning(notes, warn) == IF notes # <<>> THEN notes \o <<" | ">> \o warn ELSE warn

\* new Date().toISOString()
CreatedAtISO == <<"2026-01-01T00:00:00.000Z">>

\* state.servicesSelected.join(", ")
ServicesCSV(services) == Join([i \in 1..Len(services) |-> <<services[i]>>], <<", ">>)

\* the row finalizeAndSave builds from the draft and the geocoding result
BuildRow(st, geo) ==
  LET notes0 == OrEmpty(st.data, "notes")
      notes == CASE geo.kind = "geo" -> notes0
                 [] geo.kind = "null" -> WithWarning(notes0, WarnFailed)
                 [] geo.kind = "threw" -> WithWarning(notes0, WarnError(geo.err))
      lat == IF geo.kind = "geo" THEN NumToString(geo.lat) ELSE <<>>
      lng == IF geo.kind = "geo" THEN NumToString(geo.lng) ELSE <<>>
      \* state.data.<k>!: an absent field leaves its cell empty
      cell(k) == OrEmpty(st.data, k)
  IN <<CreatedAtISO, cell("shopName"), cell("address"), cell("city"),
       cell("state"), cell("phone"), cell("contactPerson"),
       cell("staffType"), ServicesCSV(st.servicesSelected), notes, lat, lng>>

\* `${address}, ${city}, ${state}`
FullGeocodeQuery(st) ==
  OrEmpty(st.data, "address") \o <<",", " ">> \o OrEmpty(st.data, "city")
    \o <<",", " ">> \o OrEmpty(st.data, "state")

\* a save that clears the state whether or not the append succeeded
ClearThenAppend(w, g, a) ==
  [st |-> clearFlowState(w.st), sheet |-> a.sheet, shopsCache |-> a.shopsCache,
   geoCache |-> g.geoCache, search |-> w.search,
   out |-> g.out \o <<ClearEff, AppendEff>> \o (IF a.threw THEN <<ThrowEff>> ELSE <<>>),
   handled |-> TRUE, threw |-> a.threw]

\* await appendShopRow(row) gave a; then clearFlowState and the replies
AfterAppend(w, g, a) ==
  IF a.threw
  THEN [st |-> w.st, sheet |-> a.sheet, shopsCache |-> a.shopsCache,
        geoCache |-> g.geoCache, search |-> w.search,
        out |-> g.out \o <<AppendEff, ThrowEff>>,
        handled |-> TRUE, threw |-> TRUE]
  ELSE [st |-> clearFlowState(w.st), sheet |-> a.sheet, shopsCache |-> a.shopsCache,
        geoCache |-> g.geoCache, search |-> w.search,
        out |-> g.out \o <<AppendEff, ClearEff, Reply(<<"Saved to Google Sheets.">>),
                           Reply(<<"Main menu:">>)>>,
        handled |-> TRUE, threw |-> FALSE]

\* a save that clears the state before it appends
ClearBeforeAppend(w, env, g) ==
  [AfterAppend(w, g, appendShopRow(w.sheet, w.shopsCache, BuildRow(w.st, g.res), env.api))
     EXCEPT !.st = clearFlowState(w.st)]

\* geocodeAddress gave g; build the row and append it
AfterGeocode(w, env, g) ==
  AfterAppend(w, g, appendShopRow(w.sheet, w.shopsCache, BuildRow(w.st, g.res), env.api))

\* the first required field that is missing
FirstMissing(data) ==
  Required[CHOOSE i \in 1..Len(Required) :
             /\ Falsy(data, Required[i])
             /\ \A j \in 1..(i - 1) : ~Falsy(data, Required[j])]

\* a validation failure that leaves the step where it was
StayAtStep(w, k) ==
  Res(w, w.st, <<Reply(<<"Missing required field", k>>), promptForStep(w.st)>>)

\* step = "editField"; setFlowState; promptForStep
RouteToEdit(w, k) ==
  Res(w, setFlowState(w.st, [w.st EXCEPT !.step = "editField"]),
      <<Reply(<<"Missing required field", k>>), SetEff,
        promptForStep([step |-> "editField"])>>)

\* env: what the provider and the Sheets API answer during this event
finalizeAndSave(w, env) ==
  IF \E i \in 1..Len(Required) : Falsy(w.st.data, Required[i])
  THEN RouteToEdit(w, FirstMissing(w.st.data))
  ELSE IF Len(w.st.servicesSelected) = 0
  THEN Res(w, w.st, <<Reply(<<"No services selected. If that's correct, tap Save again.">>)>>)
  ELSE AfterGeocode(w, env,
                    geocodeAddress(w.geoCache, w.userAgent, FullGeocodeQuery(w.st), env.geo))

\* a callback-data string `${p}${a}`
Data(p, a) == [p |-> p, a |-> a]

\* the fields the edit menu's switch knows
EditTextFields ==
  {"shopName", "address", "city", "state", "phone", "contactPerson", "notes"}

\* a toggle that only ever adds
ToggleAdds(services, svc) == Append(services, svc)

\* new Set(servicesSelected), has/delete/add, Array.from
ToggleService(services, svc) ==
  IF \E i \in 1..Len(services) : services[i] = svc
  THEN SelectSeq(services, LAMBDA s : s # svc)
  ELSE Append(services, svc)

\* a check that lets every selection pass
AnySelection(st) == FALSE

\* if (state.servicesSelected.length === 0)
NothingSelected(st) == Len(st.servicesSelected) = 0

\* prepend the effects emitted before a sub-handler ran
After(effects, r) == [r EXCEPT !.out = effects \o r.out]

handleAddShopCallback(w, data, env) ==
  LET st == w.st
      Goto(step, effects) ==
        LET st2 == [st EXCEPT !.step = step]
        IN Res(w, setFlowState(st, st2), effects \o <<promptForStep(st2)>>)
  IN CASE data = Data("add:cancel", "") \/ data = Data("add:confirm_cancel", "") ->
            Res(w, clearFlowState(st), <<ClearEff, Answer(data), Reply(<<"Cancelled. Main menu:">>)>>)
       [] data.p = "add:staff:" ->
            LET st2 == [st EXCEPT !.data = SetField(st.data, "staffType", <<data.a>>),
                                  !.step = "services"]
            IN Res(w, setFlowState(st, st2), <<SetEff, Answer(data), promptForStep(st2)>>)
       [] data.p = "add:toggle_service:" ->
            LET st2 == [st EXCEPT !.servicesSelected = ToggleService(@, data.a)]
            IN Res(w, setFlowState(st, st2), <<SetEff, Answer(data), <<"editMessageReplyMarkup">> >>)
       [] data = Data("add:services_done", "") ->
            IF NothingSelected(st)
            THEN Res(w, st, << <<"answerCallbackQuery", data.p, "Select at least one service">> >>)
            ELSE Goto("notes", <<SetEff, Answer(data)>>)
       [] data = Data("add:confirm_edit", "") ->
            Goto("editField", <<SetEff, Answer(data)>>)
       [] data = Data("add:confirm_save", "") ->
            After(<<Answer(data)>>, finalizeAndSave(w, env))
       [] data.p = "add:edit_field:" ->
            IF data.a = "back" THEN Goto("confirm", <<SetEff, Answer(data)>>)
            ELSE IF data.a \in EditTextFields \cup {"staffType", "services"}
            THEN Goto(data.a, <<Answer(data), SetEff>>)
            ELSE NotHandled(w, <<Answer(data)>>)
       [] OTHER -> NotHandled(w, <<>>)

----------------------------------------------------------------------------
(* src/flows/search.ts: start, cancel and the query pattern *)

IsLetter(c) == IsUpper(c) \/ IsLower(c)

\* text.trim().match(/^(.+?),\s*([A-Za-z]{2})$/)
parseCityState(text) ==
  LET t == Trim(text)
      n == Len(t)
      commas == {i \in 2..(n - 2) :
                   /\ t[i] = ","
                   /\ \A j \in 1..(i - 1) : t[j] \notin {"\n", "\r"}
                   /\ IsLetter(t[n - 1]) /\ IsLetter(t[n])
                   /\ \A j \in (i + 1)..(n - 2) : t[j] \in Whitespace}
  IN IF commas = {}
     THEN [matched |-> FALSE, city |-> <<>>, state |-> <<>>]
     ELSE LET i == CHOOSE c \in commas : \A d \in commas : c <= d
          IN [matched |-> TRUE, city |-> Trim(SubSeq(t, 1, i - 1)),
              state |-> ToUpperCase(SubSeq(t, n - 1, n))]

startSearch(w) ==
  Res(w, setFlowState(w.st, SearchState), <<SetEff, Reply(<<"Send city and state like: Dallas, TX">>)>>)

IsSearchData(data) ==
  data.p = "search:page:" \/ data = Data("search:menu", "") \/ data = Data("search:cancel", "")

\* the pieces of a string as one string, for callback data
RECURSIVE Concat(_)
Concat(s) == IF s = <<>> THEN "" ELSE Head(s) \o Concat(Tail(s))

\* the integers a page argument is read from
PageNumbers == (0 - MaxPage)..MaxPage

\* Number(data.replace("search:page:", "")), for the numerals of PageNumbers
PageOf(a) == CHOOSE n \in PageNumbers : Concat(NumToString(n)) = a

PageData(n) == Data("search:page:", Concat(NumToString(n)))

pageSize == 10

Max(a, b) == IF a >= b THEN a ELSE b
Min(a, b) == IF a <= b THEN a ELSE b

\* Math.ceil(total / pageSize)
Ceil(total, size) == (total + size - 1) \div size

\* Math.max(1, Math.ceil(total / pageSize))
TotalPages(total) == Max(1, Ceil(total, pageSize))

\* Math.min(Math.max(page, 0), totalPages - 1)
SafePage(page, totalPages) == Min(Max(page, 0), totalPages - 1)

\* a keyboard that always offers both directions
BothButtons(page, totalPages) ==
  <<"reply_markup", "Prev", "search:page:" \o Concat(NumToString(page - 1)),
    "Next", "search:page:" \o Concat(NumToString(page + 1)),
    "Main menu", "search:menu">>

\* the reply_markup of the page: labels and callback data, in order
paginationKeyboard(page, totalPages) ==
  <<"reply_markup">>
    \o (IF page > 0
        THEN <<"Prev", "search:page:" \o Concat(NumToString(page - 1))>> ELSE <<>>)
    \o (IF page < totalPages - 1
        THEN <<"Next", "search:page:" \o Concat(NumToString(page + 1))>> ELSE <<>>)
    \o <<"Main menu", "search:menu">>

\* `${idx}. ${distance} mi - ${shopName}`
formatResultLine(r, idx) ==
  NumToString(idx) \o <<". ">> \o NumToString(r.distanceMiles) \o <<" mi - ">>
    \o r.shop.shopName

RECURSIVE ResultLines(_, _, _)
ResultLines(results, from, to) ==
  IF from > to THEN <<>>
  ELSE <<"\n">> \o formatResultLine(results[from], from)
         \o ResultLines(results, from + 1, to)

\* "Results for ${query} (within 100 miles) - showing ${start + 1}-${end} of ${total}"
PageHeader(query, first, end, total) ==
  <<"Results for ">> \o query \o <<" (within 100 miles) - showing ">>
    \o NumToString(first) \o <<"-">> \o NumToString(end)
    \o <<" of ">> \o NumToString(total)

\* the reply of renderPage for the page safePage: its text, then its keyboard
PageReply(payload, safePage, totalPages) ==
  <<Reply(PageHeader(payload.query, safePage * pageSize + 1,
                     Min(Len(payload.results), safePage * pageSize + pageSize),
                     Len(payload.results))
          \o ResultLines(payload.results, safePage * pageSize + 1,
                         Min(Len(payload.results), safePage * pageSize + pageSize))),
    paginationKeyboard(safePage, totalPages)>>

\* the effects of renderPage
renderPage(page, payload) ==
  PageReply(payload, SafePage(page, TotalPages(Len(payload.results))),
            TotalPages(Len(payload.results)))

\* distance.ts is not part of the sources at hand: the coordinates of the
\* model are whole miles on a grid, and the distance is the one along it
Abs(n) == IF n < 0 THEN 0 - n ELSE n
haversineMiles(lat1, lng1, lat2, lng2) == Abs(lat1 - lat2) + Abs(lng1 - lng2)

radiusMiles == 100

\* if (d <= 100)
WithinRadius(d) == d <= radiusMiles

\* the loop of computeResultsFromCenter: the results in store order
RECURSIVE Nearby(_, _, _)
Nearby(shops, lat, lng) ==
  IF shops = <<>> THEN <<>>
  ELSE (IF ~Head(shops).lat.null /\ ~Head(shops).lng.null
           /\ WithinRadius(haversineMiles(lat, lng, Head(shops).lat.n, Head(shops).lng.n))
        THEN <<[shop |-> Head(shops),
                distanceMiles |-> haversineMiles(lat, lng, Head(shops).lat.n,
                                                 Head(shops).lng.n)]>>
        ELSE <<>>)
         \o Nearby(Tail(shops), lat, lng)

\* r goes behind the k results that are not farther than it
InsertAt(sorted, r, k) ==
  SubSeq(sorted, 1, k) \o <<r>> \o SubSeq(sorted, k + 1, Len(sorted))

\* a sort that puts a result before the results as far as it
InsertBeforeTies(sorted, r) ==
  InsertAt(sorted, r,
           Cardinality({i \in 1..Len(sorted) : sorted[i].distanceMiles < r.distanceMiles}))

InsertSorted(sorted, r) ==
  InsertAt(sorted, r,
           Cardinality({i \in 1..Len(sorted) : sorted[i].distanceMiles <= r.distanceMiles}))

\* results.sort((a, b) => a.distanceMiles - b.distanceMiles): the sort of
\* the engine is stable
RECURSIVE SortByDistance(_)
SortByDistance(results) ==
  IF results = <<>> THEN <<>>
  ELSE InsertSorted(SortByDistance(SubSeq(results, 1, Len(results) - 1)),
                    results[Len(results)])

\* computeResultsFromCenter, for the shops getAllShops returned
computeResultsFromCenter(shops, centerLat, centerLng) ==
  SortByDistance(Nearby(shops, centerLat, centerLng))

\* a store that drops the list
storeNothing(old, results, query) == old

\* setCache(["search","results",chatId,userId], {results, query}, SEARCH_TTL_MS)
storeResults(old, results, query) ==
  [present |-> TRUE, results |-> results, query |-> query]

Searching(city, state) ==
  Reply(<<"Searching within 100 miles of ">> \o city \o <<", ">> \o state \o <<"...">>)

NoShopsFound(city, state) ==
  Reply(<<"No shops found within 100 miles of ">> \o city \o <<", ">> \o state)

CouldNotGeocode(city, state) ==
  Reply(<<"I couldn't geocode ">> \o city \o <<", ">> \o state)

\* the end of runSearchByCityState, with the results computed
AfterResults(w, city, state, g, a, results) ==
  [st |-> clearFlowState(w.st), sheet |-> a.sheet, shopsCache |-> a.shopsCache,
   geoCache |-> g.geoCache,
   search |-> IF results = <<>> THEN w.search
              ELSE storeResults(w.search, results, city \o <<", ">> \o state),
   out |-> <<Searching(city, state)>> \o g.out \o <<GetAllShopsEff>> \o a.reqs
             \o <<ClearEff>>
             \o (IF results = <<>> THEN <<NoShopsFound(city, state)>>
                 ELSE <<StoreResultsEff>>
                        \o renderPage(0, storeResults(w.search, results,
                                                      city \o <<", ">> \o state))),
   handled |-> TRUE, threw |-> FALSE]

\* the call of computeResultsFromCenter, with the center geocoded
AfterCenter(w, city, state, g, a) ==
  IF a.threw
  THEN [st |-> w.st, sheet |-> a.sheet, shopsCache |-> a.shopsCache,
        geoCache |-> g.geoCache, search |-> w.search,
        out |-> <<Searching(city, state)>> \o g.out \o <<GetAllShopsEff>> \o a.reqs
                  \o <<ThrowEff>>,
        handled |-> TRUE, threw |-> TRUE]
  ELSE AfterResults(w, city, state, g, a,
                    computeResultsFromCenter(a.rows, g.res.lat, g.res.lng))

\* runSearchByCityState after geocodeCityState answered g
AfterCityState(w, city, state, g, api) ==
  CASE g.res.kind = "threw" ->
         [st |-> w.st, sheet |-> w.sheet, shopsCache |-> w.shopsCache,
          geoCache |-> g.geoCache, search |-> w.search,
          out |-> <<Searching(city, state)>> \o g.out \o <<ThrowEff>>,
          handled |-> TRUE, threw |-> TRUE]
    [] g.res.kind = "null" ->
         [st |-> clearFlowState(w.st), sheet |-> w.sheet, shopsCache |-> w.shopsCache,
          geoCache |-> g.geoCache, search |-> w.search,
          out |-> <<Searching(city, state)>> \o g.out
                    \o <<CouldNotGeocode(city, state), ClearEff>>,
          handled |-> TRUE, threw |-> FALSE]
    [] g.res.kind = "geo" ->
         AfterCenter(w, city, state, g, getAllShops(w.sheet, w.shopsCache, api))

runSearchByCityState(w, city, state, env) ==
  AfterCityState(w, city, state,
                 geocodeCityState(w.geoCache, w.userAgent, city, state, env.geo),
                 env.api)

\* the search of a parsed text
SearchParsed(w, parsed, env) ==
  IF parsed.matched THEN runSearchByCityState(w, parsed.city, parsed.state, env)
  ELSE NotHandled(w, <<>>)

tryInlineSearch(w, text, env) == SearchParsed(w, parseCityState(text), env)

FormatReprompt == Reply(<<"Format must be City, ST">>)

\* a rejection that also ends the search flow
RepromptAndClear(w) == Res(w, clearFlowState(w.st), <<FormatReprompt>>)

Reprompt(w) == Res(w, w.st, <<FormatReprompt>>)

handleSearchText(w, text, env) ==
  IF w.st.step # "awaitQuery" THEN NotHandled(w, <<>>)
  ELSE IF ~parseCityState(text).matched THEN Reprompt(w)
  ELSE SearchParsed(w, parseCityState(text), env)

ResultsExpired == Reply(<<"Search results expired. Please search again.">>)

\* a page event that renders whatever was loaded
RenderUnchecked(w, data, payload) ==
  Res(w, w.st, <<LoadResultsEff, Answer(data)>> \o renderPage(PageOf(data.a), payload))

\* the page event with the stored payload loaded
PageEvent(w, data, payload) ==
  IF ~payload.present
  THEN Res(w, w.st, <<LoadResultsEff, Answer(data), ResultsExpired>>)
  ELSE Res(w, w.st, <<LoadResultsEff, Answer(data)>> \o renderPage(PageOf(data.a), payload))

handleSearchCallback(w, data) ==
  CASE data = Data("search:cancel", "") ->
         Res(w, clearFlowState(w.st), <<ClearEff, Answer(data), Reply(<<"Cancelled. Main menu:">>)>>)
    [] data = Data("search:menu", "") ->
         Res(w, w.st, <<Answer(data), Reply(<<"Main menu:">>)>>)
    [] data.p = "search:page:" -> PageEvent(w, data, w.search)
    [] OTHER -> NotHandled(w, <<>>)

----------------------------------------------------------------------------
(* src/main.ts: the dispatch of one event *)

Fallback == Reply(<<"Use the menu, or send City, ST to search.">>)

\* the last answer of the dispatch
NoAction(w, r) ==
  IF r.handled THEN r
  ELSE Res(w, w.st, r.out \o << <<"answerCallbackQuery", "", "No action for that button.">> >>)

\* "Also allow paging even if no active flow state"
AfterSearchFlow(w, data, r) ==
  IF r.handled THEN r
  ELSE NoAction(w, IF IsSearchData(data) THEN After(r.out, handleSearchCallback(w, data))
                   ELSE NotHandled(w, r.out))

\* if (state?.flow === "search") ...
AfterAddFlow(w, data, r) ==
  IF r.handled THEN r
  ELSE AfterSearchFlow(w, data,
         IF w.st.flow = "search" THEN After(r.out, handleSearchCallback(w, data))
         ELSE NotHandled(w, r.out))

\* bot.on("callback_query:data")
onCallbackQuery(w, data, env) ==
  CASE data = Data("menu:add", "") -> After(<<Answer(data)>>, startAddShop(w))
    [] data = Data("menu:search", "") -> After(<<Answer(data)>>, startSearch(w))
    [] data = Data("menu:help", "") -> Res(w, w.st, <<Answer(data), Reply(<<"Help:">>)>>)
    [] OTHER ->
       AfterAddFlow(w, data,
         IF w.st.flow = "add" THEN handleAddShopCallback(w, data, env)
         ELSE NotHandled(w, <<>>))

\* a fallback that drops the conversation
FallbackAndClear(w, r) ==
  IF r.handled THEN r ELSE Res(w, clearFlowState(w.st), r.out \o <<Fallback>>)

\* if (handled) return; ... the default fallback
OrFallback(w, r) == IF r.handled THEN r ELSE Res(w, w.st, r.out \o <<Fallback>>)

\* a dispatch that tries the inline search whatever the state is
InlineSearchFirst(w, text, env) ==
  IF parseCityState(text).matched THEN tryInlineSearch(w, text, env)
  ELSE CASE w.st.flow = "none" -> Res(w, w.st, <<Fallback>>)
         [] w.st.flow = "add" -> OrFallback(w, handleAddShopText(w, text))
         [] w.st.flow = "search" -> OrFallback(w, handleSearchText(w, text, env))

\* bot.on("message:text")
onMessageText(w, text, env) ==
  CASE w.st.flow = "none" -> OrFallback(w, tryInlineSearch(w, text, env))
    [] w.st.flow = "add" -> OrFallback(w, handleAddShopText(w, text))
    [] w.st.flow = "search" -> OrFallback(w, handleSearchText(w, text, env))

----------------------------------------------------------------------------
(* Events *)

Keys == {"k1", "k2"}

StaffButtons == {STAFF_TYPES[i] : i \in 1..NumStaff}

ServiceButtons == {SERVICES[i] : i \in 1..NumServices}

EditButtons == EditTextFields \cup {"staffType", "services", "back"}

\* the texts a participant sends (a text message has at least one
\* character); the "-" of the notes prompt is sent at the notes step only
TextsAt(st) ==
  {<<" ">>, <<" ", "t", "x", " ">>}
    \cup (IF st.flow = "add" /\ st.step = "notes" THEN {<<"-">>} ELSE {})

NoEnv == [geo |-> [kind |-> "empty", c |-> <<0, 0>>], api |-> "ok"]

World(k) ==
  [st |-> kvState[k], sheet |-> sheet, shopsCache |-> shopsCache,
   geoCache |-> geoCache, search |-> searchCache[k], userAgent |-> userAgent]

\* a run is followed up to its first appended row
Running == DataRows(sheet) = <<>>

\* the updates: ctx.message.text, or ctx.callbackQuery.data with the
\* answers of the services
NoEvent ==
  [key |-> "", kind |-> "none", text |-> <<>>, data |-> Data("", ""), env |-> NoEnv]

TextOf(k, text) ==
  [key |-> k, kind |-> "text", text |-> text, data |-> Data("", ""), env |-> NoEnv]

ButtonOf(k, data, env) ==
  [key |-> k, kind |-> "button", text |-> <<>>, data |-> data, env |-> env]

Handle(k, e, r) ==
  /\ ev' = e
  /\ kvState' = [kvState EXCEPT ![k] = r.st]
  /\ sheet' = r.sheet
  /\ shopsCache' = r.shopsCache
  /\ geoCache' = r.geoCache
  /\ searchCache' = [searchCache EXCEPT ![k] = r.search]
  /\ out' = r.out
  /\ UNCHANGED <<userAgent, ret, throttleVars>>

\* a text message of the participant k
TextEvent(k, text) == Handle(k, TextOf(k, text), onMessageText(World(k), text, NoEnv))

\* a text that may start a search, and what the services answer
SearchTextEvent(k, text, env) ==
  Handle(k, [TextOf(k, text) EXCEPT !.env = env], onMessageText(World(k), text, env))

\* a button press of the participant k, and what the services answer
ButtonEvent(k, data, env) ==
  Handle(k, ButtonOf(k, data, env), onCallbackQuery(World(k), data, env))

MenuAdd(k) ==
  /\ Running
  /\ ButtonEvent(k, Data("menu:add", ""), NoEnv)

MenuSearch(k) ==
  /\ Running
  /\ ButtonEvent(k, Data("menu:search", ""), NoEnv)

MenuHelp(k) ==
  /\ Running
  /\ ButtonEvent(k, Data("menu:help", ""), NoEnv)

MessageText(k) ==
  /\ Running
  /\ \E text \in TextsAt(kvState[k]) : TextEvent(k, text)

AddCancel(k) ==
  /\ Running
  /\ \E p \in {"add:cancel", "add:confirm_cancel"} : ButtonEvent(k, Data(p, ""), NoEnv)

AddStaff(k) ==
  /\ Running
  /\ \E t \in StaffButtons : ButtonEvent(k, Data("add:staff:", t), NoEnv)

AddToggleService(k) ==
  /\ Running
  /\ \E s \in ServiceButtons : ButtonEvent(k, Data("add:toggle_service:", s), NoEnv)

AddServicesDone(k) ==
  /\ Running
  /\ ButtonEvent(k, Data("add:services_done", ""), NoEnv)

AddConfirmEdit(k) ==
  /\ Running
  /\ ButtonEvent(k, Data("add:confirm_edit", ""), NoEnv)

\* the save asks the provider and the Sheets API only with a complete draft
\* and a selected service
SaveCallsOut(st) ==
  /\ st.flow = "add"
  /\ \A i \in 1..Len(Required) : ~Falsy(st.data, Required[i])
  /\ Len(st.servicesSelected) > 0

Envs(st) ==
  IF SaveCallsOut(st)
  THEN {[geo |-> g, api |-> a] : g \in ProviderAnswers, a \in ApiAnswers}
  ELSE {NoEnv}

AddConfirmSave(k) ==
  /\ Running
  /\ \E env \in Envs(kvState[k]) : ButtonEvent(k, Data("add:confirm_save", ""), env)

AddEditField(k) ==
  /\ Running
  /\ \E f \in EditButtons : ButtonEvent(k, Data("add:edit_field:", f), NoEnv)

SearchButton(k) ==
  /\ Running
  /\ \E p \in {"search:cancel", "search:menu"} : ButtonEvent(k, Data(p, ""), NoEnv)

----------------------------------------------------------------------------
(* One participant, every event *)

Init ==
  /\ kvState = [k \in Keys |-> NoState]
  /\ sheet = <<HEADER>>
  /\ shopsCache = NoCache
  /\ geoCache = [k \in {} |-> GeoNull]
  /\ userAgent = TRUE
  /\ ev = NoEvent
  /\ out = <<>>
  /\ searchCache = [k \in Keys |-> NoResults]
  /\ ret = <<>>
  /\ clock = 0
  /\ lastNominatimRequestMs = 0
  /\ callers = <<>>
  /\ lookups = <<>>

Next ==
  \/ MenuAdd("k1")
  \/ MenuSearch("k1")
  \/ MenuHelp("k1")
  \/ MessageText("k1")
  \/ AddCancel("k1")
  \/ AddStaff("k1")
  \/ AddToggleService("k1")
  \/ AddServicesDone("k1")
  \/ AddConfirmEdit("k1")
  \/ AddConfirmSave("k1")
  \/ AddEditField("k1")
  \/ SearchButton("k1")

Spec == Init /\ [][Next]_vars

----------------------------------------------------------------------------
(* One participant who presses only the buttons of the prompt shown last *)

\* the keyboard promptForStep sends for the step, the main menu when no
\* flow is active, the cancel button of the search prompt
KeyboardAt(st) ==
  CASE st.flow = "none" ->
         {Data("menu:add", ""), Data("menu:search", ""), Data("menu:help", "")}
    [] st.flow = "search" -> {Data("search:cancel", "")}
    [] st.flow = "add" /\ st.step = "staffType" ->
         {Data("add:staff:", t) : t \in StaffButtons} \cup {Data("add:cancel", "")}
    [] st.flow = "add" /\ st.step = "services" ->
         {Data("add:toggle_service:", x) : x \in ServiceButtons}
           \cup {Data("add:services_done", ""), Data("add:cancel", "")}
    [] st.flow = "add" /\ st.step = "confirm" ->
         {Data("add:confirm_save", ""), Data("add:confirm_edit", ""),
          Data("add:confirm_cancel", "")}
    [] st.flow = "add" /\ st.step = "editField" ->
         {Data("add:edit_field:", f) : f \in EditButtons} \cup {Data("add:cancel", "")}
    [] OTHER -> {Data("add:cancel", "")}

PromptButton(k) ==
  /\ Running
  /\ \E data \in KeyboardAt(kvState[k]) :
       \E env \in (IF data = Data("add:confirm_save", "") THEN Envs(kvState[k]) ELSE {NoEnv}) :
         ButtonEvent(k, data, env)

NextLinear == PromptButton("k1") \/ MessageText("k1")

SpecLinear == Init /\ [][NextLinear]_vars

----------------------------------------------------------------------------
(* Two participants, the events that start, fill and cancel a flow *)

NextKeys ==
  \E k \in Keys :
    \/ MenuAdd(k)
    \/ MenuSearch(k)
    \/ MessageText(k)
    \/ AddStaff(k)
    \/ AddCancel(k)

SpecKeys == Init /\ [][NextKeys]_vars

----------------------------------------------------------------------------
(* One participant who searches a sheet of shops and pages the results *)

\* a stored row of the shop i at (lat, lng)
ShopRow(i, lat, lng) ==
  <<<<"t">>, <<"shop">> \o NumToString(i), <<"a">>, <<"d">>, <<"T", "X">>, <<"p">>,
    <<"c">>, <<"Mixed/Other">>, <<"Tires">>, <<>>, lat, lng>>

\* the shops 1, 2, 3, ... lie 100, 75, 50, 25, 0, 100, ... miles north of
\* (32, -96)
NearLat(i) == 32 + 25 * ((4 * i) % 5)

\* the header, n shops within the radius, one shop 101 miles away and one
\* whose address was never geocoded
SearchSheet(n) ==
  <<HEADER>>
    \o [i \in 1..n |-> ShopRow(i, NumToString(NearLat(i)), NumToString(-96))]
    \o <<ShopRow(0, NumToString(133), NumToString(-96)), ShopRow(0, <<>>, <<>>)>>

\* the texts sent: two spellings of one city and state, and a text that
\* is no city and state
CityText == <<"d", ",", " ", "t", "x">>
SearchTexts == {CityText, <<" ", "D", ",", "T", "X">>, <<"t", "x">>}

\* what the provider and the Sheets API answer during a search
SearchEnvs ==
  {[geo |-> g, api |-> a] :
     g \in ProviderAnswers \cup {[kind |-> "ok", c |-> <<32, 96>>]},
     a \in {"ok", "rows read fails"}}

\* a text that is no city and state reaches no service
EnvsOf(text) == IF parseCityState(text).matched THEN SearchEnvs ELSE {NoEnv}

InitSheet(sheets) ==
  /\ kvState = [k \in Keys |-> NoState]
  /\ sheet \in sheets
  /\ shopsCache = NoCache
  /\ geoCache = [k \in {} |-> GeoNull]
  /\ userAgent = TRUE
  /\ ev = NoEvent
  /\ out = <<>>
  /\ searchCache = [k \in Keys |-> NoResults]
  /\ ret = <<>>
  /\ clock = 0
  /\ lastNominatimRequestMs = 0
  /\ callers = <<>>
  /\ lookups = <<>>

InitSearch == InitSheet({SearchSheet(n) : n \in 0..MaxFound})

OpenSearch(k) ==
  /\ k \in Keys
  /\ ButtonEvent(k, Data("menu:search", ""), NoEnv)

OpenAdd(k) ==
  /\ k \in Keys
  /\ ButtonEvent(k, Data("menu:add", ""), NoEnv)

\* a text outside the add flow
SendSearchText(k) ==
  /\ kvState[k].flow # "add"
  /\ \E text \in SearchTexts : \E env \in EnvsOf(text) : SearchTextEvent(k, text, env)

\* a city and state sent as the answer to a prompt of the add flow
SendCityToAdd(k) ==
  /\ kvState[k].flow = "add"
  /\ SearchTextEvent(k, CityText, NoEnv)

PressPage(k) ==
  /\ k \in Keys
  /\ \E n \in PageNumbers : ButtonEvent(k, PageData(n), NoEnv)

PressSearchButton(k) ==
  /\ k \in Keys
  /\ \E p \in {"search:cancel", "search:menu"} : ButtonEvent(k, Data(p, ""), NoEnv)

PressAddCancel(k) ==
  /\ kvState[k].flow = "add"
  /\ ButtonEvent(k, Data("add:cancel", ""), NoEnv)

Expired == [NoEvent EXCEPT !.kind = "expired"]

\* the stored result set reaches SEARCH_TTL_MS and Deno KV drops it
ResultsExpire(k) ==
  /\ searchCache[k].present
  /\ searchCache' = [searchCache EXCEPT ![k] = NoResults]
  /\ ev' = Expired
  /\ out' = <<>>
  /\ UNCHANGED <<kvState, sheet, shopsCache, geoCache, userAgent, ret, throttleVars>>

\* the cached rows reach their time to live
RowsExpire ==
  /\ shopsCache.present
  /\ shopsCache' = NoCache
  /\ ev' = Expired
  /\ out' = <<>>
  /\ UNCHANGED <<kvState, sheet, geoCache, userAgent, searchCache, ret, throttleVars>>

\* the cached centers reach their time to live
GeoExpire ==
  /\ DOMAIN geoCache # {}
  /\ geoCache' = [k \in {} |-> GeoNull]
  /\ ev' = Expired
  /\ out' = <<>>
  /\ UNCHANGED <<kvState, sheet, shopsCache, userAgent, searchCache, ret, throttleVars>>

NextSearch ==
  \/ OpenSearch("k1")
  \/ SendSearchText("k1")
  \/ PressPage("k1")
  \/ PressSearchButton("k1")
  \/ ResultsExpire("k1")
  \/ RowsExpire
  \/ GeoExpire

SpecSearch == InitSearch /\ [][NextSearch]_vars

----------------------------------------------------------------------------
(* One participant who pages a stored result set *)

\* the state a search for CityText leaves on the sheet sh
Searched(sh) ==
  runSearchByCityState([st |-> NoState, sheet |-> sh, shopsCache |-> NoCache,
                        geoCache |-> [k \in {} |-> GeoNull], search |-> NoResults,
                        userAgent |-> TRUE],
                       <<"d">>, <<"T", "X">>,
                       [geo |-> [kind |-> "ok", c |-> <<32, -96>>], api |-> "ok"])

InitPages ==
  \E n \in 1..MaxShops :
    /\ kvState = [k \in Keys |-> NoState]
    /\ sheet = SearchSheet(n)
    /\ shopsCache = Searched(SearchSheet(n)).shopsCache
    /\ geoCache = Searched(SearchSheet(n)).geoCache
    /\ userAgent = TRUE
    /\ ev = NoEvent
    /\ out = <<>>
    /\ searchCache = [k \in Keys |-> IF k = "k1" THEN Searched(SearchSheet(n)).search
                                     ELSE NoResults]
    /\ ret = <<>>
    /\ clock = 0
    /\ lastNominatimRequestMs = 0
    /\ callers = <<>>
    /\ lookups = <<>>

NextPages ==
  \/ PressPage("k1")
  \/ PressSearchButton("k1")
  \/ ResultsExpire("k1")

SpecPages == InitPages /\ [][NextPages]_vars

----------------------------------------------------------------------------
(* The proximity computation applied to a center and a list of rows *)

\* parsed rows: at 0, 100, 100, 101 and 25 miles from (32, -96), and two
\* rows with one coordinate missing
ShopSamples ==
  {parseRow(ShopRow(1, NumToString(32), NumToString(-96))),
   parseRow(ShopRow(2, NumToString(132), NumToString(-96))),
   parseRow(ShopRow(3, NumToString(-68), NumToString(-96))),
   parseRow(ShopRow(4, NumToString(133), NumToString(-96))),
   parseRow(ShopRow(5, NumToString(57), NumToString(-96))),
   parseRow(ShopRow(6, <<>>, NumToString(-96))),
   parseRow(ShopRow(7, NumToString(32), <<>>))}

Centers == {<<32, -96>>, <<33, -96>>}

ShopLists == UNION {[1..n -> ShopSamples] : n \in 0..MaxList}

InitProximity ==
  /\ ret \in {[shops |-> l, center |-> c, results |-> <<>>, done |-> FALSE] :
               l \in ShopLists, c \in Centers}
  /\ kvState = [k \in Keys |-> NoState]
  /\ sheet = <<HEADER>>
  /\ shopsCache = NoCache
  /\ geoCache = [k \in {} |-> GeoNull]
  /\ userAgent = TRUE
  /\ ev = NoEvent
  /\ out = <<>>
  /\ searchCache = [k \in Keys |-> NoResults]
  /\ clock = 0
  /\ lastNominatimRequestMs = 0
  /\ callers = <<>>
  /\ lookups = <<>>

ComputeResults ==
  /\ ~ret.done
  /\ ret' = [ret EXCEPT
               !.results = computeResultsFromCenter(ret.shops, ret.center[1],
                                                    ret.center[2]),
               !.done = TRUE]
  /\ UNCHANGED <<kvState, sheet, shopsCache, geoCache, userAgent, ev, out,
                 searchCache, throttleVars>>

SpecProximity == InitProximity /\ [][ComputeResults]_vars

----------------------------------------------------------------------------
(* The geocoding client called with queries and provider answers *)

\* two spellings of one address, and another address
AddressQueries ==
  {<<"a", " ", "b">>, <<" ", "A", " ", " ", "b", " ">>, <<"c">>}

\* two spellings of one city and state, and another city
CityStatePairs ==
  {<<<<"d">>, <<"T", "X">>>>, <<<<"D">>, <<"t", "x">>>>, <<<<"e">>, <<"T", "X">>>>}

\* one call: the function, its query as sent to the provider, the answer
CallOf(fn, q, answer) ==
  [key |-> "", kind |-> "call", text |-> q, data |-> Data(fn, ""),
   env |-> [geo |-> answer, api |-> "ok"]]

\* the call returned r
Returned(e, r) ==
  /\ ev' = e
  /\ ret' = r.res
  /\ geoCache' = r.geoCache
  /\ out' = r.out
  /\ UNCHANGED <<kvState, sheet, shopsCache, userAgent, searchCache, throttleVars>>

CallGeocodeAddress ==
  /\ userAgent \in BOOLEAN
  /\ \E q \in AddressQueries : \E answer \in ProviderAnswers :
       Returned(CallOf("geocodeAddress", q, answer),
                geocodeAddress(geoCache, userAgent, q, answer))

CallGeocodeCityState ==
  /\ userAgent \in BOOLEAN
  /\ \E cs \in CityStatePairs : \E answer \in ProviderAnswers :
       Returned(CallOf("geocodeCityState", CityStateQuery(cs[1], cs[2]), answer),
                geocodeCityState(geoCache, userAgent, cs[1], cs[2], answer))

InitGeocode == InitSheet({<<HEADER>>})

NextGeocode == CallGeocodeAddress \/ CallGeocodeCityState \/ GeoExpire

SpecGeocode == InitGeocode /\ [][NextGeocode]_vars

----------------------------------------------------------------------------
(* The throttle of the geocoding client under concurrent callers *)

minInterval == 1100

Callers == 1..NumCallers

\* const wait = Math.max(0, minInterval - (now - lastNominatimRequestMs))
WaitAt(now, last) == Max(0, minInterval - (now - last))

\* Date.now() of a running process lies far beyond minInterval, so the first
\* call finds wait = 0
InitThrottle ==
  /\ clock = minInterval
  /\ lastNominatimRequestMs = 0
  /\ callers = [c \in Callers |-> [pc |-> "idle", wake |-> 0, lookup |-> 0]]
  /\ lookups = <<>>
  /\ kvState = [k \in Keys |-> NoState]
  /\ sheet = <<HEADER>>
  /\ shopsCache = NoCache
  /\ geoCache = [k \in {} |-> GeoNull]
  /\ userAgent = TRUE
  /\ ev = NoEvent
  /\ out = <<>>
  /\ searchCache = [k \in Keys |-> NoResults]
  /\ ret = <<>>

NotThrottle == <<kvState, sheet, shopsCache, geoCache, userAgent, ev, out, searchCache, ret>>

\* lastNominatimRequestMs = Date.now(), and the fetch that follows it
StartLookup(c) ==
  /\ lastNominatimRequestMs' = clock
  /\ lookups' = Append(lookups, [caller |-> c, start |-> clock, ended |-> FALSE, end |-> 0])
  /\ callers' = [callers EXCEPT ![c] = [pc |-> "fetching", wake |-> 0,
                                         lookup |-> Len(lookups) + 1]]

\* nominatimSearch is called on a cache miss: throttle() up to its await,
\* or, with nothing to wait for, up to the fetch
EnterThrottle(c) ==
  /\ callers[c].pc = "idle"
  /\ Len(lookups) + Cardinality({d \in Callers : callers[d].pc = "delaying"}) < MaxLookups
  /\ IF WaitAt(clock, lastNominatimRequestMs) > 0
     THEN /\ callers' = [callers EXCEPT ![c] =
                           [pc |-> "delaying",
                            wake |-> clock + WaitAt(clock, lastNominatimRequestMs),
                            lookup |-> 0]]
          /\ UNCHANGED <<lastNominatimRequestMs, lookups>>
     ELSE StartLookup(c)
  /\ UNCHANGED <<clock, NotThrottle>>

\* delay(wait) is over: the rest of throttle(), then the fetch
WakeUp(c) ==
  /\ callers[c].pc = "delaying"
  /\ clock >= callers[c].wake
  /\ StartLookup(c)
  /\ UNCHANGED <<clock, NotThrottle>>

\* the provider answered (or the request failed): the lookup is over
Respond(c) ==
  /\ callers[c].pc = "fetching"
  /\ lookups' = [lookups EXCEPT ![callers[c].lookup] =
                   [@ EXCEPT !.ended = TRUE, !.end = clock]]
  /\ callers' = [callers EXCEPT ![c] = [pc |-> "idle", wake |-> 0, lookup |-> 0]]
  /\ UNCHANGED <<clock, lastNominatimRequestMs, NotThrottle>>

Tick ==
  /\ clock + TickMs <= MaxClock
  /\ clock' = clock + TickMs
  /\ UNCHANGED <<lastNominatimRequestMs, callers, lookups, NotThrottle>>

NextThrottle ==
  \/ \E c \in Callers : EnterThrottle(c)
  \/ \E c \in Callers : WakeUp(c)
  \/ \E c \in Callers : Respond(c)
  \/ Tick

SpecThrottle == InitThrottle /\ [][NextThrottle]_vars

----------------------------------------------------------------------------
(* The Sheets client called on sheets with any first row *)

\* a first row of other columns
OtherHeader == <<<<"name">>, <<"phone">>>>

\* a first row of eleven cells whose first cell holds "createdAtISO|shopName"
JoinedHeader == <<<<"createdAtISO", "|", "shopName">>>> \o SubSeq(HEADER, 3, 12)

StoredRow == ShopRow(1, NumToString(32), NumToString(-96))

\* the sheets the client may find: empty, with the header, with the header
\* and a row, with another first row, with an empty first row above a row
FoundSheets ==
  {<<>>, <<HEADER>>, <<HEADER, StoredRow>>, <<OtherHeader>>, <<OtherHeader, StoredRow>>,
   <<JoinedHeader>>, <<JoinedHeader, StoredRow>>, <<<<>>, StoredRow>>}

InitSheets == InitSheet(FoundSheets)

SheetApiAnswers == ApiAnswers \cup {"rows read fails"}

\* the call returned r
SheetReturned(e, r) ==
  /\ ev' = e
  /\ ret' = [threw |-> r.threw, reqs |-> r.reqs]
  /\ sheet' = r.sheet
  /\ shopsCache' = r.shopsCache
  /\ out' = r.reqs
  /\ UNCHANGED <<kvState, geoCache, userAgent, searchCache, throttleVars>>

CallGetAllShops ==
  /\ Len(sheet) <= MaxRows
  /\ \E api \in SheetApiAnswers :
       SheetReturned([CallOf("getAllShops", <<>>, NoEnv.geo) EXCEPT !.env.api = api],
                     getAllShops(sheet, shopsCache, api))

CallAppendShopRow ==
  /\ Len(sheet) < MaxRows
  /\ \E api \in SheetApiAnswers :
       SheetReturned([CallOf("appendShopRow", <<>>, NoEnv.geo) EXCEPT !.env.api = api],
                     appendShopRow(sheet, shopsCache, StoredRow, api))

NextSheets == CallGetAllShops \/ CallAppendShopRow \/ RowsExpire

SpecSheets == InitSheets /\ [][NextSheets]_vars

----------------------------------------------------------------------------
(* One participant who sends a city and state while adding a shop *)

InitInline == InitSheet({SearchSheet(1)})

NextInline ==
  \/ OpenAdd("k1")
  \/ OpenSearch("k1")
  \/ SendCityToAdd("k1")
  \/ SendSearchText("k1")
  \/ PressPage("k1")
  \/ PressAddCancel("k1")
  \/ ResultsExpire("k1")

SpecInline == InitInline /\ [][NextInline]_vars

----------------------------------------------------------------------------
(* Properties of the add flow *)

\* the value under the key of the participant followed in Spec
Cur == kvState["k1"]

InAdd == Cur.flow = "add"

\* the seven fields a saved shop must have
RequiredFields ==
  {"shopName", "address", "city", "state", "phone", "contactPerson", "staffType"}

Missing(data, f) == f \notin DOMAIN data \/ data[f] = <<>>

\* the update handled by the step is the text, or the button with the
\* services' answers, of the participant followed in Spec
TextSent == ev'.kind = "text" /\ ev'.key = "k1"

Pressed(data) == ev'.kind = "button" /\ ev'.key = "k1" /\ ev'.data = data

\* a text of spaces only
Blank(text) == \A i \in 1..Len(text) : text[i] = " "

\* the effect a occurs in the list before the effect b
Before(effects, a, b) ==
  \E i, j \in 1..Len(effects) : i < j /\ effects[i] = a /\ effects[j] = b

Count(effects, a) == Cardinality({i \in 1..Len(effects) : effects[i] = a})

Save == Data("add:confirm_save", "")

\* C1: at the steps shopName, address, city, phone and contactPerson a text
\* whose trimmed value is empty leaves the stored state of every key as it
\* was (step, draft, selected services), appends nothing, and the only
\* effect is the re-prompt for that same step.
C1_EmptyTextReprompts ==
  [][(/\ InAdd
      /\ Cur.step \in {"shopName", "address", "city", "phone", "contactPerson"}
      /\ TextSent
      /\ Blank(ev'.text))
       => /\ kvState' = kvState
          /\ sheet' = sheet
          /\ out' = <<Reply(<<"cannot be empty", Cur.step>>)>>]_vars

\* an empty address was refused while the draft holds the shop name
C1_Witness ==
  /\ InAdd
  /\ Cur.step = "address"
  /\ ~Missing(Cur.data, "shopName")
  /\ out = <<Reply(<<"cannot be empty", "address">>)>>

LinearOrder ==
  <<"shopName", "address", "city", "state", "phone", "contactPerson",
    "staffType", "services", "notes", "confirm">>

Successor(step) ==
  LinearOrder[(CHOOSE i \in 1..(Len(LinearOrder) - 1) : LinearOrder[i] = step) + 1]

\* the value a valid text leaves in the draft at a text step
Stored(step, text) ==
  CASE step = "state" -> ToUpperCase(Trim(text))
    [] step = "notes" -> IF Trim(text) = <<"-">> THEN <<>> ELSE Trim(text)
    [] OTHER -> Trim(text)

\* the text is a valid input of the text step
ValidAt(step, text) ==
  CASE step = "state" ->
         Len(Trim(text)) = 2 /\ \A i \in 1..2 : IsLetter(Trim(text)[i])
    [] step = "notes" -> TRUE
    [] OTHER -> ~Blank(text)

\* C2: the start leaves the step shopName, and the valid input of each step
\* leads to the next step of the order shopName, address, city, state,
\* phone, contactPerson, staffType, services, notes, confirm: the input is
\* written into the draft and the state is persisted before the next prompt.
C2_LinearOrder ==
  [][/\ Pressed(Data("menu:add", ""))
          => kvState'["k1"].step = LinearOrder[1]
     /\ (/\ TextSent
         /\ InAdd
         /\ Cur.step \in {"shopName", "address", "city", "state", "phone",
                          "contactPerson", "notes"}
         /\ ValidAt(Cur.step, ev'.text))
        => /\ kvState'["k1"] =
                [Cur EXCEPT !.step = Successor(Cur.step),
                            !.data = SetField(Cur.data, Cur.step, Stored(Cur.step, ev'.text))]
           /\ out' = <<SetEff, Reply(<<"prompt", Successor(Cur.step)>>)>>
     /\ (/\ Pressed(Data("add:staff:", ev'.data.a))
         /\ InAdd
         /\ Cur.step = "staffType")
        => /\ kvState'["k1"] =
                [Cur EXCEPT !.step = "services",
                            !.data = SetField(Cur.data, "staffType", <<ev'.data.a>>)]
           /\ Before(out', SetEff, Reply(<<"prompt", "services">>))
     /\ (/\ Pressed(Data("add:services_done", ""))
         /\ InAdd
         /\ Cur.step = "services"
         /\ Len(Cur.servicesSelected) > 0)
        => /\ kvState'["k1"] = [Cur EXCEPT !.step = "notes"]
           /\ Before(out', SetEff, Reply(<<"prompt", "notes">>))]_vars

\* the notes were accepted and the flow stands at confirm with every field
\* of the draft written and a service selected
C2_Witness ==
  /\ InAdd
  /\ Cur.step = "confirm"
  /\ DOMAIN Cur.data = RequiredFields \cup {"notes"}
  /\ \A f \in RequiredFields : ~Missing(Cur.data, f)
  /\ Len(Cur.servicesSelected) > 0
  /\ out = <<SetEff, Reply(<<"prompt", "confirm">>)>>

\* the field was just chosen in the edit menu: the handler of
\* add:edit_field:<field> answered, persisted and prompted for it
ChosenForEdit(f) ==
  /\ InAdd
  /\ Cur.step = f
  /\ out = <<Answer(Data("add:edit_field:", f)), SetEff, Reply(<<"prompt", f>>)>>

\* C3: after edit and the choice of one field, completing that field (a
\* valid text, a staff type, or Done with a service selected) sets the step
\* back to confirm.
C3_EditReturnsToConfirm ==
  [][/\ (/\ TextSent
         /\ \E f \in EditTextFields : ChosenForEdit(f)
         /\ ValidAt(Cur.step, ev'.text))
        => kvState'["k1"].step = "confirm"
     /\ (Pressed(Data("add:staff:", ev'.data.a)) /\ ChosenForEdit("staffType"))
        => kvState'["k1"].step = "confirm"
     /\ (/\ Pressed(Data("add:services_done", ""))
         /\ ChosenForEdit("services")
         /\ Len(Cur.servicesSelected) > 0)
        => kvState'["k1"].step = "confirm"]_vars

\* every required field is in the draft
Complete(st) == st.flow = "add" /\ \A f \in RequiredFields : ~Missing(st.data, f)

NoServicesWarning ==
  Reply(<<"No services selected. If that's correct, tap Save again.">>)

\* C4: at confirm, with the seven required fields present and no service
\* selected, once a save was answered by the warning, the save that
\* directly follows appends the row.
C4_SecondSavePersists ==
  (/\ Complete(Cur)
   /\ Cur.step = "confirm"
   /\ Cur.servicesSelected = <<>>
   /\ out = <<Answer(Save), NoServicesWarning>>)
  => ENABLED (ButtonEvent("k1", Save, NoEnv) /\ Len(sheet') = Len(sheet) + 1)

\* C5: add:cancel or add:confirm_cancel, at any step of the add flow and
\* with any draft, deletes the state under the key and appends nothing; the
\* key holds no state afterwards.
C5_CancelDeletesState ==
  [][((Pressed(Data("add:cancel", "")) \/ Pressed(Data("add:confirm_cancel", ""))) /\ InAdd)
       => /\ kvState'["k1"] = [flow |-> "none"]
          /\ sheet' = sheet
          /\ Count(out', ClearEff) = 1]_vars

\* the add flow was cancelled from its confirmation keyboard
C5_Witness ==
  /\ Cur = [flow |-> "none"]
  /\ sheet = <<HEADER>>
  /\ out = <<ClearEff, Answer(Data("add:confirm_cancel", "")), Reply(<<"Cancelled. Main menu:">>)>>

\* the row the save builds: the cells 2..9 are the seven fields of the
\* draft and the selected services joined by ", "
RowOfDraft(st, row) ==
  /\ Len(row) = 12
  /\ row[1] # <<>>
  /\ row[2] = st.data["shopName"]
  /\ row[3] = st.data["address"]
  /\ row[4] = st.data["city"]
  /\ row[5] = st.data["state"]
  /\ row[6] = st.data["phone"]
  /\ row[7] = st.data["contactPerson"]
  /\ row[8] = st.data["staffType"]
  /\ row[9] = ServicesCSV(st.servicesSelected)

\* the save passes validation: the seven fields and a selected service
PassesValidation(st) == Complete(st) /\ Len(st.servicesSelected) > 0

\* C6: a save with one of shopName, address, city, state, phone,
\* contactPerson, staffType missing or empty appends nothing, keeps the
\* state with its draft and selected services unchanged, and sets the step
\* to editField.
C6_MissingFieldRoutesToEdit ==
  [][(/\ Pressed(Save)
      /\ InAdd
      /\ \E f \in RequiredFields : Missing(Cur.data, f))
     => /\ sheet' = sheet
        /\ kvState'["k1"] = [Cur EXCEPT !.step = "editField"]]_vars

\* a save found the contact person missing in a draft that holds the shop
\* name, and the field selection is shown
C6_Witness ==
  /\ InAdd
  /\ Cur.step = "editField"
  /\ ~Missing(Cur.data, "shopName")
  /\ out = <<Answer(Save), Reply(<<"Missing required field", "contactPerson">>),
             SetEff, Reply(<<"prompt", "editField">>)>>

\* the query of the draft is not in the geocode cache
CacheMiss(st) ==
  <<"address", normalizeKey(FullGeocodeQuery(st))>> \notin DOMAIN geoCache

\* the warning the save adds to the notes for the provider's answer
WarningFor(answer) ==
  IF answer.kind = "network error"
  THEN <<"WARNING: Geocoding error; lat/lng left empty. (",
         "TypeError: error sending request", ")">>
  ELSE <<"WARNING: Geocoding failed; lat/lng left empty.">>

\* C7: when a save passes validation and geocoding gives no result or
\* raises an error, the row appended has lat and lng empty and its notes
\* are the warning when the draft has no notes, and "<notes> | <warning>"
\* otherwise; the state is cleared as after a successful geocoding. (A row
\* is appended when the Sheets API accepts the append.)
C7_GeocodeFailureStillSaves ==
  [][(/\ Pressed(Save)
      /\ PassesValidation(Cur)
      /\ CacheMiss(Cur)
      /\ ev'.env.geo.kind # "ok"
      /\ ev'.env.api = "ok")
       => /\ Len(sheet') = Len(sheet) + 1
          /\ LET row == sheet'[Len(sheet')]
                 notes == IF "notes" \in DOMAIN Cur.data THEN Cur.data["notes"] ELSE <<>>
             IN /\ RowOfDraft(Cur, row)
                /\ row[10] = IF notes = <<>> THEN WarningFor(ev'.env.geo)
                             ELSE notes \o <<" | ">> \o WarningFor(ev'.env.geo)
                /\ row[11] = <<>>
                /\ row[12] = <<>>
          /\ kvState'["k1"] = [flow |-> "none"]
          /\ Before(out', AppendEff, ClearEff)]_vars

\* a row was appended whose notes are the draft's notes joined to the
\* warning, without coordinates, and the state is cleared
C7_Witness ==
  /\ Len(sheet) = 2
  /\ sheet[2][10] = <<"t", "x", " | ", "WARNING: Geocoding failed; lat/lng left empty.">>
  /\ sheet[2][11] = <<>>
  /\ sheet[2][12] = <<>>
  /\ Cur = [flow |-> "none"]

\* the Sheets API fails a request the append makes: the read of the header
\* row, the append itself, or the header update an empty sheet needs
AppendFails(env) ==
  \/ env.api \in {"read fails", "append fails"}
  \/ env.api = "update fails" /\ (Len(sheet) = 0 \/ sheet[1] = <<>>)

\* C8: a save that passes validation makes exactly one append, of one row
\* of 12 fields (timestamp, the seven fields, the services joined, notes,
\* lat, lng); the state is cleared after the append has succeeded, and when
\* the append fails nothing is appended and the state is kept.
C8_OneRowThenClear ==
  [][(Pressed(Save) /\ PassesValidation(Cur))
       => /\ Count(out', AppendEff) = 1
          /\ IF ~AppendFails(ev'.env)
             THEN /\ Len(sheet') = Len(sheet) + 1
                  /\ SubSeq(sheet', 1, Len(sheet)) = sheet
                  /\ RowOfDraft(Cur, sheet'[Len(sheet')])
                  /\ kvState'["k1"] = [flow |-> "none"]
                  /\ Before(out', AppendEff, ClearEff)
                  /\ Count(out', ClearEff) = 1
             ELSE /\ sheet' = sheet
                  /\ kvState' = kvState
                  /\ Count(out', ClearEff) = 0]_vars

\* a geocoded row was appended and the state was cleared after the append
C8_Witness ==
  /\ Len(sheet) = 2
  /\ Len(sheet[2]) = 12
  /\ sheet[2][11] = <<"3", "2">>
  /\ sheet[2][12] = <<"-", "9", "6">>
  /\ Cur = [flow |-> "none"]
  /\ Before(out, AppendEff, ClearEff)

\* C9: every row appended has non-empty createdAt, shopName, address, city,
\* state, phone, contactPerson, staffType and services.
C9_PersistedFieldsNonEmpty ==
  \A i \in 2..Len(sheet) : \A c \in 1..9 : sheet[i][c] # <<>>

\* a row was appended whose notes are empty
C9_Witness ==
  /\ Len(sheet) = 2
  /\ sheet[2][10] = <<>>
  /\ sheet[2][11] # <<>>

\* C10: a key holds one state, and a start replaces it whatever it was:
\* menu:add leaves exactly an add state at shopName with an empty draft and
\* no selected service, menu:search leaves exactly a search state at
\* awaitQuery; the states of the other keys stay as they were.
C10_StartOverwrites ==
  [][\A k \in Keys :
       /\ ev' = ButtonOf(k, Data("menu:add", ""), NoEnv)
            => kvState' = [kvState EXCEPT ![k] =
                             [flow |-> "add", step |-> "shopName",
                              data |-> [f \in {} |-> <<>>], servicesSelected |-> <<>>]]
       /\ ev' = ButtonOf(k, Data("menu:search", ""), NoEnv)
            => kvState' = [kvState EXCEPT ![k] = [flow |-> "search", step |-> "awaitQuery"]]]_vars

\* one key was just started afresh while the other holds a draft
C10_Witness ==
  /\ kvState["k1"] = [flow |-> "add", step |-> "shopName",
                      data |-> [f \in {} |-> <<>>], servicesSelected |-> <<>>]
  /\ out[1] = Answer(Data("menu:add", ""))
  /\ kvState["k2"].flow = "add"
  /\ ~Missing(kvState["k2"].data, "staffType")
----------------------------------------------------------------------------
(* Properties of the search flow *)

\* the text of the step is a city and state
CitySent == TextSent /\ parseCityState(ev'.text).matched

\* the step ran a search: it asked for the center of a city and state
SearchRan(effects) == Count(effects, GeocodeCityStateEff) > 0

C12_NonMatchingReprompts ==
  [][(Cur = SearchState /\ TextSent /\ ~parseCityState(ev'.text).matched) =>
       /\ out' = <<FormatReprompt>>
       /\ kvState' = kvState
       /\ <<sheet, shopsCache, geoCache, searchCache>>' =
            <<sheet, shopsCache, geoCache, searchCache>>]_vars

C12_Witness ==
  /\ ev.kind = "text" /\ ev.text = <<"t", "x">>
  /\ Cur = SearchState
  /\ out = <<FormatReprompt>>

\* the rows of the list that have both coordinates and lie within 100 miles
Qualifying ==
  {i \in 1..Len(ret.shops) :
     /\ ~ret.shops[i].lat.null
     /\ ~ret.shops[i].lng.null
     /\ haversineMiles(ret.center[1], ret.center[2],
                       ret.shops[i].lat.n, ret.shops[i].lng.n) <= 100}

DistanceOf(i) ==
  haversineMiles(ret.center[1], ret.center[2], ret.shops[i].lat.n, ret.shops[i].lng.n)

\* the place of the row i among the qualifying rows: behind the nearer
\* ones and behind the equally distant ones stored before it
Rank(i) ==
  1 + Cardinality({j \in Qualifying :
                     \/ DistanceOf(j) < DistanceOf(i)
                     \/ DistanceOf(j) = DistanceOf(i) /\ j < i})

\* C13: for every center and every list of rows, the proximity computation
\* returns exactly the rows that have both lat and lng and lie at most 100
\* miles from the center (100 included, 101 excluded), each with its
\* distance, in ascending distance, rows of equal distance in store order.
C13_ProximityResults ==
  ret.done =>
    /\ Len(ret.results) = Cardinality(Qualifying)
    /\ \A i \in Qualifying :
         /\ ret.results[Rank(i)].shop = ret.shops[i]
         /\ ret.results[Rank(i)].distanceMiles = DistanceOf(i)

\* two shops at exactly 100 miles are kept in store order and the shop at
\* 101 miles stored before them is left out
C13_Witness ==
  /\ ret.done
  /\ Len(ret.shops) = 3
  /\ DistanceOf(1) = 101
  /\ Len(ret.results) = 2
  /\ ret.results[1].distanceMiles = 100 /\ ret.results[1].shop = ret.shops[2]
  /\ ret.results[2].distanceMiles = 100 /\ ret.results[2].shop = ret.shops[3]
  /\ ret.shops[2] # ret.shops[3]

\* the city and state of the text of the step, and the label of its search
SentCity == parseCityState(ev'.text)

\* the step computed the result list: the rows were read and nothing threw
ResultsComputed ==
  /\ CitySent
  /\ Count(out', GetAllShopsEff) = 1
  /\ Count(out', ThrowEff) = 0

\* the center the step searched around, as the geocode cache holds it
Center(sent) ==
  geoCache'[<<"citystate", normalizeKey(CityStateQuery(sent.city, sent.state))>>]

\* the rows the step searched: the cached ones, or those of the sheet
RowsSearched == IF shopsCache.present THEN shopsCache.rows ELSE ParseRows(sheet)

\* the reply that shows the first results of the list
FirstPage(results, label) ==
  Reply(PageHeader(label, 1, Min(Len(results), 10), Len(results))
        \o ResultLines(results, 1, Min(Len(results), 10)))

\* what the step leaves when its result list is found
StoredIfFound(found, city, state) ==
  IF found = <<>>
  THEN /\ searchCache' = searchCache
       /\ Count(out', StoreResultsEff) = 0
       /\ out'[Len(out')] = NoShopsFound(city, state)
  ELSE /\ searchCache'["k1"] =
            [present |-> TRUE, results |-> found, query |-> city \o <<", ">> \o state]
       /\ Before(out', StoreResultsEff, FirstPage(found, city \o <<", ">> \o state))

\* C14: a search whose result list is empty writes no result set (the
\* entry of the key stays as it was and the reply is "No shops found"),
\* while a search with a non-empty list stores that sorted list with the
\* query label under the key and then replies with its page 0.
C14_StoreOnlyFoundResults ==
  [][ResultsComputed =>
       \A sent \in {SentCity} : \A rows \in {RowsSearched} : \A c \in {Center(sent)} :
         \A found \in {computeResultsFromCenter(rows, c.lat, c.lng)} :
           StoredIfFound(found, sent.city, sent.state)]_vars

\* a search that found nothing left the stored list of an earlier search,
\* whose order differs from the order of the sheet
C14_Witness ==
  /\ ev.kind = "text"
  /\ Count(out, GetAllShopsEff) = 1
  /\ out[Len(out)] = NoShopsFound(<<"d">>, <<"T", "X">>)
  /\ searchCache["k1"].present
  /\ Len(searchCache["k1"].results) = 2
  /\ searchCache["k1"].results[1].shop = parseRow(sheet[3])
  /\ searchCache["k1"].results[2].shop = parseRow(sheet[2])

\* the number of pages of n results, ten to a page: ceil(n / 10)
PagesOf(n) == CHOOSE t \in 1..n : 10 * (t - 1) < n /\ n <= 10 * t

\* the page in 0..last nearest to the page asked for
NearestPage(asked, last) ==
  CHOOSE q \in 0..last : \A r \in 0..last : Abs(q - asked) <= Abs(r - asked)

HasButton(markup, label, target) ==
  \E i \in 1..(Len(markup) - 1) : markup[i] = label /\ markup[i + 1] = target

\* the effects show the page q of the payload: its header, and a keyboard
\* with Prev when q > 0, Next when q is not the last page, and Main menu
ShowsPage(effects, payload, q, last) ==
  /\ Len(effects) = 4
  /\ Count(effects, ThrowEff) = 0
  /\ \E rest \in {ResultLines(payload.results, 10 * q + 1,
                              Min(Len(payload.results), 10 * q + 10))} :
       effects[3] = Reply(PageHeader(payload.query, 10 * q + 1,
                                     Min(Len(payload.results), 10 * q + 10),
                                     Len(payload.results)) \o rest)
  /\ effects[4][1] = "reply_markup"
  /\ HasButton(effects[4], "Prev", PageData(q - 1).p \o PageData(q - 1).a) <=> q > 0
  /\ HasButton(effects[4], "Next", PageData(q + 1).p \o PageData(q + 1).a) <=> q < last
  /\ ~ \E i \in 1..Len(effects[4]) :
          \/ effects[4][i] = "Prev" /\ q = 0
          \/ effects[4][i] = "Next" /\ q = last
  /\ HasButton(effects[4], "Main menu", "search:menu")

\* C15: for a cached result set of N results, a page event with any integer
\* argument (negative or too large) shows, without error, the page of
\* 0..ceil(N/10)-1 nearest to the argument: results 10q+1..min(N, 10q+10) of
\* N, with the Prev button only when q > 0, the Next button only when
\* q < ceil(N/10)-1, and always the Main menu button.
C15_PageClamped ==
  [][\A n \in PageNumbers :
       (Pressed(PageData(n)) /\ searchCache["k1"].present) =>
         \A payload \in {searchCache["k1"]} : \A effects \in {out'} :
           ShowsPage(effects, payload,
                     NearestPage(n, PagesOf(Len(payload.results)) - 1),
                     PagesOf(Len(payload.results)) - 1)]_vars

\* page 3 of 21 results was asked for and the last page, 2, is shown
C15_Witness ==
  /\ ev.kind = "button" /\ ev.data = PageData(3)
  /\ searchCache["k1"].present
  /\ Len(searchCache["k1"].results) = 21
  /\ Len(out) = 4
  /\ out[4] = <<"reply_markup", "Prev", "search:page:1", "Main menu", "search:menu">>

\* C16: a page event for a key that has no cached result set (never
\* stored, or expired) is answered with the reply "Search results expired.
\* Please search again." and nothing else but the answer to the callback
\* query: no error is raised, and the state of the key, the sheet and every
\* cache stay as they were, whatever flow the key is in.
C16_PageWithoutResults ==
  [][\A n \in PageNumbers :
       (Pressed(PageData(n)) /\ ~searchCache["k1"].present) =>
         /\ out' = <<LoadResultsEff, Answer(PageData(n)), ResultsExpired>>
         /\ kvState' = kvState
         /\ <<sheet, shopsCache, geoCache, searchCache>>' =
              <<sheet, shopsCache, geoCache, searchCache>>]_vars

\* the page was asked for in the middle of the add flow
C16_Witness ==
  /\ ev.kind = "button" /\ ev.data = PageData(1)
  /\ InAdd /\ Cur.step = "address"
  /\ ~searchCache["k1"].present
  /\ out = <<LoadResultsEff, Answer(PageData(1)), ResultsExpired>>

----------------------------------------------------------------------------
(* Properties of the geocoding client *)

\* the step is a call that follows a call of the same function
CallAfterCall ==
  /\ ev.kind = "call" /\ ev'.kind = "call"
  /\ ev.data = ev'.data

\* the queries are equal after trim, lowercase and whitespace collapse
SameQuery(q1, q2) ==
  CollapseWhitespace(ToLowerCase(Trim(q1))) = CollapseWhitespace(ToLowerCase(Trim(q2)))

\* C17: of two calls made one after the other with queries that are equal
\* after trim, lowercase and whitespace collapse, the first of which asked
\* the provider and got a result, the second asks nothing: it returns the
\* coordinates of the first from the entry the first wrote, which stays the
\* only entry written, so one outbound request is issued in total.
C17_SameEntryOneRequest ==
  [][(/\ CallAfterCall
      /\ SameQuery(ev.text, ev'.text)
      /\ Count(out, FetchEff) = 1
      /\ ret.kind = "geo") =>
       /\ Count(out', FetchEff) = 0
       /\ ret' = ret
       /\ geoCache' = geoCache]_vars

\* the second call spelled the address differently and asked nothing
C17_Witness ==
  /\ ev.kind = "call"
  /\ ev.text = <<" ", "A", " ", " ", "b", " ">>
  /\ out = <<GeocodeEff>>
  /\ ret.kind = "geo"
  /\ Cardinality(DOMAIN geoCache) = 1

\* the provider was asked and answered with one of the three non-results
NoResultAnswered ==
  /\ ev'.kind = "call"
  /\ Count(out', FetchEff) = 1
  /\ ev'.env.geo.kind \in {"empty", "non200", "nonfinite"}

NetworkFailed ==
  /\ ev'.kind = "call"
  /\ Count(out', FetchEff) = 1
  /\ ev'.env.geo.kind = "network error"

\* C18: when the provider answers with an empty result, a non-200 response
\* or non-finite coordinates, the call returns null as a value and leaves
\* the geocode cache as it was, and a call for the same query right after
\* it asks the provider again; when the request fails at the network level
\* the call throws, and the cache is left as it was too.
C18_NoNegativeCaching ==
  [][/\ NoResultAnswered => (ret'.kind = "null" /\ geoCache' = geoCache)
     /\ NetworkFailed => (ret'.kind = "threw" /\ geoCache' = geoCache)
     /\ (CallAfterCall /\ SameQuery(ev.text, ev'.text) /\ ret.kind = "null") =>
          Count(out', FetchEff) = 1]_vars

\* a call that asked the provider again after a call that returned null
C18_Witness ==
  /\ ev.kind = "call" /\ ev.env.geo.kind = "non200"
  /\ ret.kind = "null"
  /\ out = <<GeocodeCityStateEff, FetchEff>>
  /\ DOMAIN geoCache = {}

\* C19: whoever the callers are and however their calls interleave, every
\* outbound lookup starts at least 1100 ms after the end of the lookup
\* issued before it (so the earlier one has ended by then, and no two
\* lookups start closer together than 1100 ms).
C19_LookupsSpaced ==
  \A i, j \in 1..Len(lookups) :
    i < j =>
      /\ lookups[i].ended
      /\ lookups[j].start >= lookups[i].end + 1100

----------------------------------------------------------------------------
(* Properties of the Sheets client *)

\* the step is a call of getAllShops or appendShopRow that read the first
\* row of the sheet
HeaderChecked ==
  /\ ev'.kind = "call"
  /\ ev'.data.p \in {"getAllShops", "appendShopRow"}
  /\ ev'.env.api # "read fails"
  /\ Len(ret'.reqs) > 0
  /\ ret'.reqs[1] = ReadHeaderReq

\* C20: a call that checks the header writes the header only when the first
\* row of the sheet is empty; when the first row is not empty and is not
\* the header the call throws and writes nothing: the sheet stays as it
\* was, no request follows the read of the first row, and the cached rows
\* stay as they were.
C20_HeaderMismatchStops ==
  [][HeaderChecked =>
       /\ Count(ret'.reqs, UpdateHeaderReq) > 0 => FirstRow(sheet) = <<>>
       /\ (FirstRow(sheet) # <<>> /\ FirstRow(sheet) # HEADER) =>
            /\ ret'.threw
            /\ sheet' = sheet
            /\ ret'.reqs = <<ReadHeaderReq>>
            /\ shopsCache' = shopsCache]_vars

----------------------------------------------------------------------------
(* getAllShops and appendShopRow as concurrent calls: every await of the
   two functions is a point where the other calls may run *)

NumReaders == 2
MaxReads == 3

Writer == NumReaders + 1
Readers == 1..NumReaders

Idle == [pc |-> "idle", rows |-> <<>>]

\* ret in this specification: whether append(row) has returned, and the
\* reads that returned, each with what it returned and whether the append
\* had returned before it
NoCalls == [appended |-> FALSE, reads |-> <<>>]

InitReadWrite ==
  /\ callers = [p \in {Writer} \cup Readers |-> Idle]
  /\ ret = NoCalls
  /\ sheet = <<HEADER>>
  /\ shopsCache = NoCache
  /\ kvState = [k \in Keys |-> NoState]
  /\ geoCache = [k \in {} |-> GeoNull]
  /\ userAgent = TRUE
  /\ ev = NoEvent
  /\ out = <<>>
  /\ searchCache = [k \in Keys |-> NoResults]
  /\ clock = 0
  /\ lastNominatimRequestMs = 0
  /\ lookups = <<>>

NotReadWrite ==
  <<kvState, geoCache, userAgent, ev, out, searchCache, clock,
    lastNominatimRequestMs, lookups>>

\* the read returned rows to its caller
ReadReturns(r, rows) ==
  /\ ret' = [ret EXCEPT !.reads = Append(@, [rows |-> rows, afterAppend |-> ret.appended])]
  /\ callers' = [callers EXCEPT ![r] = Idle]

\* const cached = await getCache(kv, cacheKey); if (cached) return cached;
GetCache(r) ==
  /\ callers[r].pc = "idle"
  /\ Len(ret.reads) + Cardinality({p \in Readers : callers[p].pc # "idle"}) < MaxReads
  /\ IF shopsCache.present
     THEN ReadReturns(r, shopsCache.rows)
     ELSE /\ callers' = [callers EXCEPT ![r].pc = "ensureHeaderRow"]
          /\ UNCHANGED ret
  /\ UNCHANGED <<sheet, shopsCache, NotReadWrite>>

\* await ensureHeaderRow(kv), in getAllShops
ReadEnsureHeader(r) ==
  /\ callers[r].pc = "ensureHeaderRow"
  /\ ~ensureHeaderRow(sheet, "ok").threw
  /\ sheet' = ensureHeaderRow(sheet, "ok").sheet
  /\ callers' = [callers EXCEPT ![r].pc = "readValues"]
  /\ UNCHANGED <<shopsCache, ret, NotReadWrite>>

\* const values = await readValues(kv, "A:L"), and the parse of the rows
ReadValues(r) ==
  /\ callers[r].pc = "readValues"
  /\ callers' = [callers EXCEPT ![r] = [pc |-> "setCache", rows |-> ParseRows(sheet)]]
  /\ UNCHANGED <<sheet, shopsCache, ret, NotReadWrite>>

\* await setCache(kv, cacheKey, rows, sheetCacheTtlMs()); return rows;
SetCache(r) ==
  /\ callers[r].pc = "setCache"
  /\ shopsCache' = [present |-> TRUE, rows |-> callers[r].rows]
  /\ ReadReturns(r, callers[r].rows)
  /\ UNCHANGED <<sheet, NotReadWrite>>

\* appendShopRow(kv, row) is called: await ensureHeaderRow(kv)
AppendEnsureHeader ==
  /\ callers[Writer].pc = "idle"
  /\ ~ret.appended
  /\ ~ensureHeaderRow(sheet, "ok").threw
  /\ sheet' = ensureHeaderRow(sheet, "ok").sheet
  /\ callers' = [callers EXCEPT ![Writer].pc = "append"]
  /\ UNCHANGED <<shopsCache, ret, NotReadWrite>>

\* the append request, answered with res.ok
AppendValues ==
  /\ callers[Writer].pc = "append"
  /\ sheet' = Append(sheet, StoredRow)
  /\ callers' = [callers EXCEPT ![Writer].pc = "invalidateShopsCache"]
  /\ UNCHANGED <<shopsCache, ret, NotReadWrite>>

\* await invalidateShopsCache(kv), and the return of appendShopRow
InvalidateShopsCache ==
  /\ callers[Writer].pc = "invalidateShopsCache"
  /\ shopsCache' = NoCache
  /\ callers' = [callers EXCEPT ![Writer] = Idle]
  /\ ret' = [ret EXCEPT !.appended = TRUE]
  /\ UNCHANGED <<sheet, NotReadWrite>>

NextReadWrite ==
  \/ \E r \in Readers : GetCache(r)
  \/ \E r \in Readers : ReadEnsureHeader(r)
  \/ \E r \in Readers : ReadValues(r)
  \/ \E r \in Readers : SetCache(r)
  \/ AppendEnsureHeader
  \/ AppendValues
  \/ InvalidateShopsCache

SpecReadWrite == InitReadWrite /\ [][NextReadWrite]_vars

----------------------------------------------------------------------------
(* Properties of concurrent calls and events *)

\* the row is among the rows a read returned
Contains(rows, row) == \E i \in 1..Len(rows) : rows[i] = parseRow(row)

\* C21: once append(row) has returned successfully, every readAll that
\* returns afterwards contains that row, under every interleaving of the
\* two calls
C21_ReadYourWrites ==
  \A i \in 1..Len(ret.reads) :
    ret.reads[i].afterAppend => Contains(ret.reads[i].rows, StoredRow)

----------------------------------------------------------------------------
(* Two updates of one participant handled concurrently: the callback
   handler reads the state with getFlowState, and what runs after that
   await works on the copy it read *)

Handlers == {"h1", "h2"}

TwoServices == {SERVICES[1], SERVICES[2]}

\* the draft when the services keyboard is shown
DraftAtServices ==
  [f \in RequiredFields |->
     IF f = "state" THEN <<"T", "X">>
     ELSE IF f = "staffType" THEN <<STAFF_TYPES[1]>> ELSE <<"t", "x">>]

Selections ==
  {<<>>} \cup {<<s>> : s \in TwoServices}
    \cup {sel \in {<<s, t>> : s \in TwoServices, t \in TwoServices} : sel[1] # sel[2]}

\* the buttons of the services keyboard, and the cancel button
ServicesKeyboard ==
  {Data("add:toggle_service:", s) : s \in TwoServices}
    \cup {Data("add:services_done", ""), Data("add:cancel", "")}

Waiting == [pc |-> "waiting", data |-> Data("", ""), st |-> NoState]

InitConcurrent ==
  \E sel \in Selections :
    /\ kvState = [k \in Keys |->
                    IF k = "k1" THEN AddState("services", DraftAtServices, sel)
                    ELSE NoState]
    /\ ret = AddState("services", DraftAtServices, sel)
    /\ callers = [h \in Handlers |-> Waiting]
    /\ sheet = <<HEADER>>
    /\ shopsCache = NoCache
    /\ geoCache = [k \in {} |-> GeoNull]
    /\ userAgent = TRUE
    /\ ev = NoEvent
    /\ out = <<>>
    /\ searchCache = [k \in Keys |-> NoResults]
    /\ clock = 0
    /\ lastNominatimRequestMs = 0
    /\ lookups = <<>>

\* the world a handler sees when it holds the state st
WorldWith(st) == [World("k1") EXCEPT !.st = st]

\* the handler called kv.set or kv.delete for the state key
WroteState(effects) ==
  \E i \in 1..Len(effects) : effects[i] = SetEff \/ effects[i] = ClearEff

\* an update with the pressed button arrives: the synchronous part of the
\* handler, up to const state = await getFlowState(kv, chatId, userId)
GetFlowState(h) ==
  /\ callers[h].pc = "waiting"
  /\ \E data \in ServicesKeyboard :
       callers' = [callers EXCEPT ![h] = [pc |-> "handling", data |-> data,
                                           st |-> kvState["k1"]]]
  /\ UNCHANGED <<kvState, sheet, shopsCache, geoCache, userAgent, ev, out,
                 searchCache, ret, clock, lastNominatimRequestMs, lookups>>

\* the rest of the handler, run on the state it read: the value it passes
\* to setFlowState (or the delete) is what the key holds afterwards
HandleOnCopy(h) ==
  /\ callers[h].pc = "handling"
  /\ \A r \in {onCallbackQuery(WorldWith(callers[h].st), callers[h].data, NoEnv)} :
       /\ kvState' = [kvState EXCEPT !["k1"] = IF WroteState(r.out) THEN r.st ELSE @]
       /\ out' = r.out
  /\ ev' = ButtonOf("k1", callers[h].data, NoEnv)
  /\ callers' = [callers EXCEPT ![h].pc = "done"]
  /\ UNCHANGED <<sheet, shopsCache, geoCache, userAgent, searchCache, ret,
                 clock, lastNominatimRequestMs, lookups>>

NextConcurrent ==
  \/ \E h \in Handlers : GetFlowState(h)
  \/ \E h \in Handlers : HandleOnCopy(h)

SpecConcurrent == InitConcurrent /\ [][NextConcurrent]_vars

\* the state after the button d is handled alone on the state st
HandledAlone(st, d) == onCallbackQuery(WorldWith(st), d, NoEnv).st

\* the state after the events of the handlers a then b, one after the other
OneAfterTheOther(a, b) ==
  HandledAlone(HandledAlone(ret, callers[a].data), callers[b].data)

BothHandled == \A h \in Handlers : callers[h].pc = "done"

\* C22: when two events of one key were handled concurrently, the stored
\* state equals the state that handling them one after the other, in one
\* of the two orders, leaves: no update is lost
C22_SerializedPerKey ==
  BothHandled =>
    \/ kvState["k1"] = OneAfterTheOther("h1", "h2")
    \/ kvState["k1"] = OneAfterTheOther("h2", "h1")

----------------------------------------------------------------------------
(* The services keyboard pressed from every selection of two services; ret
   keeps the state before the last event and the event before the last *)

InitServices ==
  \E sel \in Selections :
    /\ kvState = [k \in Keys |->
                    IF k = "k1" THEN AddState("services", DraftAtServices, sel)
                    ELSE NoState]
    /\ ret = [st |-> AddState("services", DraftAtServices, sel), ev |-> NoEvent]
    /\ callers = <<>>
    /\ sheet = <<HEADER>>
    /\ shopsCache = NoCache
    /\ geoCache = [k \in {} |-> GeoNull]
    /\ userAgent = TRUE
    /\ ev = NoEvent
    /\ out = <<>>
    /\ searchCache = [k \in Keys |-> NoResults]
    /\ clock = 0
    /\ lastNominatimRequestMs = 0
    /\ lookups = <<>>

\* the event e of the participant "k1" was handled and left r
Handled(e, r) ==
  /\ ev' = e
  /\ ret' = [st |-> kvState["k1"], ev |-> ev]
  /\ kvState' = [kvState EXCEPT !["k1"] = r.st]
  /\ out' = r.out
  /\ UNCHANGED <<sheet, shopsCache, geoCache, userAgent, searchCache, throttleVars>>

ToggleData(s) == Data("add:toggle_service:", s)

PressToggle ==
  /\ kvState["k1"].flow = "add"
  /\ \E s \in TwoServices :
       Handled(ButtonOf("k1", ToggleData(s), NoEnv),
               onCallbackQuery(World("k1"), ToggleData(s), NoEnv))

PressDone ==
  /\ kvState["k1"].flow = "add"
  /\ Handled(ButtonOf("k1", Data("add:services_done", ""), NoEnv),
             onCallbackQuery(World("k1"), Data("add:services_done", ""), NoEnv))

\* the edit menu is opened from the confirmation, and the services chosen
PressEdit ==
  /\ kvState["k1"].flow = "add"
  /\ kvState["k1"].step \in {"confirm", "editField"}
  /\ \E d \in {Data("add:confirm_edit", ""), Data("add:edit_field:", "services")} :
       Handled(ButtonOf("k1", d, NoEnv), onCallbackQuery(World("k1"), d, NoEnv))

SendText ==
  /\ kvState["k1"].flow = "add"
  /\ \E text \in TextsAt(kvState["k1"]) :
       Handled(TextOf("k1", text), onMessageText(World("k1"), text, NoEnv))

NextServices == PressToggle \/ PressDone \/ PressEdit \/ SendText

SpecServices == InitServices /\ [][NextServices]_vars

----------------------------------------------------------------------------
(* Properties of the selections and of the steps of the add flow *)

\* the tags of a selection
Tags(services) == {services[i] : i \in 1..Len(services)}

\* the selections hold the same tags, each once
SameSelection(a, b) ==
  /\ Tags(a) = Tags(b)
  /\ Len(a) = Cardinality(Tags(a))
  /\ Len(b) = Cardinality(Tags(b))

\* the step toggles the service s
Toggles(s) == ev'.kind = "button" /\ ev'.data = ToggleData(s)

\* C23: a toggle adds the tag to the selection when it is absent and removes
\* it when it is present, leaves the other tags and the step as they were,
\* and the second of two toggles of the same service in a row leaves the
\* selection that was there before the first.
C23_ToggleTwiceRestores ==
  [][\A s \in TwoServices :
       Toggles(s) =>
         /\ kvState'["k1"].step = Cur.step
         /\ kvState'["k1"].data = Cur.data
         /\ Tags(kvState'["k1"].servicesSelected) =
              (IF s \in Tags(Cur.servicesSelected)
               THEN Tags(Cur.servicesSelected) \ {s}
               ELSE Tags(Cur.servicesSelected) \cup {s})
         /\ (ev = ev' => SameSelection(kvState'["k1"].servicesSelected,
                                       ret.st.servicesSelected))]_vars

\* a service was toggled twice in a row from a selection of two services
C23_Witness ==
  /\ ev.kind = "button"
  /\ ev.data.p = "add:toggle_service:"
  /\ ret.ev = ev
  /\ Len(Cur.servicesSelected) = 2

Done == Data("add:services_done", "")

\* C24: the 'done' button of the services keyboard moves the add flow to
\* the notes step when at least one service is selected and changes nothing
\* else; with no service selected it leaves the stored state of every key
\* as it was; and a toggle never changes the step.
C24_DoneNeedsSelection ==
  [][((InAdd /\ Pressed(Done)) =>
        IF Cur.servicesSelected = <<>>
        THEN kvState' = kvState
        ELSE kvState' = [kvState EXCEPT !["k1"].step = "notes"])
     /\ ((InAdd /\ ev'.kind = "button" /\ ev'.data.p = "add:toggle_service:") =>
           kvState'["k1"].step = Cur.step)]_vars

\* 'done' was pressed at the services step with nothing selected, after a
\* toggle that emptied the selection
C24_Witness ==
  /\ ev = ButtonOf("k1", Done, NoEnv)
  /\ ret.ev.data.p = "add:toggle_service:"
  /\ Cur = AddState("services", DraftAtServices, <<>>)

----------------------------------------------------------------------------
(* The state step of the add flow, with texts of every shape *)

\* the draft when the state is asked for the first time
DraftAtState ==
  [f \in {"shopName", "address", "city"} |-> <<"t", "x">>]

\* two letters in either case, padded, one letter, three letters, a digit,
\* letters around a space, the sharp s, a blank, digits
StateTexts ==
  {<<"t", "x">>, <<" ", "t", "X", " ">>, <<"T", "X">>, <<"t">>, <<"t", "x", "s">>,
   <<"t", "1">>, <<"t", " ", "x">>, <<"ß">>, <<" ">>, <<"1", "2">>}

\* the state is asked in the linear flow, or again from the edit menu with
\* the draft complete
InitStateStep ==
  \E st \in {AddState("state", DraftAtState, <<>>),
             AddState("state", DraftAtServices, <<SERVICES[1]>>)} :
    /\ kvState = [k \in Keys |-> IF k = "k1" THEN st ELSE NoState]
    /\ ret = [st |-> st, ev |-> NoEvent]
    /\ callers = <<>>
    /\ sheet = <<HEADER>>
    /\ shopsCache = NoCache
    /\ geoCache = [k \in {} |-> GeoNull]
    /\ userAgent = TRUE
    /\ ev = NoEvent
    /\ out = <<>>
    /\ searchCache = [k \in Keys |-> NoResults]
    /\ clock = 0
    /\ lastNominatimRequestMs = 0
    /\ lookups = <<>>

SendStateText ==
  /\ kvState["k1"].flow = "add"
  /\ kvState["k1"].step = "state"
  /\ \E text \in StateTexts :
       Handled(TextOf("k1", text), onMessageText(World("k1"), text, NoEnv))

\* the state is chosen in the edit menu
PressEditState ==
  /\ kvState["k1"].flow = "add"
  /\ kvState["k1"].step # "state"
  /\ Handled(ButtonOf("k1", Data("add:edit_field:", "state"), NoEnv),
             onCallbackQuery(World("k1"), Data("add:edit_field:", "state"), NoEnv))

NextStateStep == SendStateText \/ SendText \/ PressEditState

SpecStateStep == InitStateStep /\ [][NextStateStep]_vars

\* two letters A-Z
TwoUpperLetters(s) == Len(s) = 2 /\ IsUpper(s[1]) /\ IsUpper(s[2])

\* the draft holds a state
StateSet(st) == st.flow = "add" /\ "state" \in DOMAIN st.data

\* C25: at the state step a text whose trimmed, uppercased value is two
\* letters A-Z is stored as that uppercase value, alone among the draft's
\* fields, and the step becomes phone; any other text leaves the stored
\* state of every key as it was; and the state field of a draft, once set,
\* is two uppercase letters.
C25_StateTwoLetters ==
  [][((InAdd /\ Cur.step = "state" /\ TextSent) =>
        (\A v \in {ToUpperCase(Trim(ev'.text))} :
           IF TwoUpperLetters(v)
           THEN kvState' = [kvState EXCEPT !["k1"].step = "phone",
                                           !["k1"].data = SetField(Cur.data, "state", v)]
           ELSE kvState' = kvState))
     /\ (StateSet(kvState'["k1"]) =>
           TwoUpperLetters(kvState'["k1"].data["state"]))]_vars

\* a padded text in mixed case was accepted at the state step
C25_Witness ==
  /\ ev = TextOf("k1", <<" ", "t", "X", " ">>)
  /\ ret.st.step = "state"
  /\ ~StateSet(ret.st)
  /\ Cur.step = "phone"
  /\ Cur.data["state"] = <<"T", "X">>

\* the steps of the add flow that expect a button, not a text
ButtonSteps == {"staffType", "services", "confirm", "editField"}

\* C26: a text message handled while the add flow is at staffType,
\* services, confirm or editField leaves the stored state of every key as
\* it was (step, draft, selected services), writes nothing to the sheet,
\* and is answered by the default fallback only.
C26_TextAtButtonStepIgnored ==
  [][(InAdd /\ Cur.step \in ButtonSteps /\ TextSent) =>
       /\ kvState' = kvState
       /\ sheet' = sheet
       /\ out' = <<Fallback>>]_vars

\* a text with letters was sent at the confirm step of a complete draft
C26_Witness ==
  /\ ev = TextOf("k1", <<" ", "t", "x", " ">>)
  /\ InAdd
  /\ Cur.step = "confirm"
  /\ Complete(Cur)
  /\ Len(Cur.servicesSelected) > 0
  /\ out = <<Fallback>>

----------------------------------------------------------------------------
(* The edit menu opened from the confirmation of a complete draft *)

\* the draft shown at the confirm step
DraftAtConfirm ==
  [f \in RequiredFields \cup {"notes"} |->
     IF f = "state" THEN <<"T", "X">>
     ELSE IF f = "staffType" THEN <<STAFF_TYPES[1]>> ELSE <<"o", "l", "d">>]

InitEdit ==
  \E sel \in {<<SERVICES[1]>>, <<SERVICES[2], SERVICES[1]>>} :
    /\ kvState = [k \in Keys |->
                    IF k = "k1" THEN AddState("confirm", DraftAtConfirm, sel)
                    ELSE NoState]
    /\ ret = [st |-> AddState("confirm", DraftAtConfirm, sel), ev |-> NoEvent]
    /\ callers = <<>>
    /\ sheet = <<HEADER>>
    /\ shopsCache = NoCache
    /\ geoCache = [k \in {} |-> GeoNull]
    /\ userAgent = TRUE
    /\ ev = NoEvent
    /\ out = <<>>
    /\ searchCache = [k \in Keys |-> NoResults]
    /\ clock = 0
    /\ lastNominatimRequestMs = 0
    /\ lookups = <<>>

PressConfirmEdit ==
  /\ kvState["k1"].step = "confirm"
  /\ Handled(ButtonOf("k1", Data("add:confirm_edit", ""), NoEnv),
             onCallbackQuery(World("k1"), Data("add:confirm_edit", ""), NoEnv))

PressEditField ==
  /\ kvState["k1"].step = "editField"
  /\ \E f \in EditButtons :
       Handled(ButtonOf("k1", Data("add:edit_field:", f), NoEnv),
               onCallbackQuery(World("k1"), Data("add:edit_field:", f), NoEnv))

\* the chosen field is a text field: a text is sent
SendValue ==
  /\ kvState["k1"].step \in EditTextFields
  /\ \E text \in IF kvState["k1"].step = "state" THEN {<<"o", "k">>, <<"t">>}
                 ELSE TextsAt(kvState["k1"]) :
       Handled(TextOf("k1", text), onMessageText(World("k1"), text, NoEnv))

\* the chosen field is the staff type: a staff button is pressed
PressStaff ==
  /\ kvState["k1"].step = "staffType"
  /\ \E t \in {STAFF_TYPES[1], STAFF_TYPES[2]} :
       Handled(ButtonOf("k1", Data("add:staff:", t), NoEnv),
               onCallbackQuery(World("k1"), Data("add:staff:", t), NoEnv))

\* the chosen field is the services: the services keyboard is pressed
PressService ==
  /\ kvState["k1"].step = "services"
  /\ \E d \in {ToggleData(s) : s \in TwoServices} \cup {Done} :
       Handled(ButtonOf("k1", d, NoEnv), onCallbackQuery(World("k1"), d, NoEnv))

NextEdit ==
  PressConfirmEdit \/ PressEditField \/ SendValue \/ PressStaff \/ PressService

SpecEdit == InitEdit /\ [][NextEdit]_vars

\* the last event chose the field f in the edit menu
ChoseField(f) ==
  /\ ev.kind = "button"
  /\ ev.data = Data("add:edit_field:", f)
  /\ Cur.step = f

\* the step gives a value for the field f
GivesValue(f) ==
  CASE f \in EditTextFields -> ev'.kind = "text"
    [] f = "staffType" -> ev'.kind = "button" /\ ev'.data.p = "add:staff:"
    [] f = "services" -> ev'.kind = "button" /\ ev'.data.p = "add:toggle_service:"

\* the draft and the selection but for the field f are as they were
OnlyChanged(f) ==
  /\ kvState'["k1"].flow = "add"
  /\ DOMAIN kvState'["k1"].data = DOMAIN Cur.data
  /\ \A g \in DOMAIN Cur.data \ {f} : kvState'["k1"].data[g] = Cur.data[g]
  /\ f # "services" => kvState'["k1"].servicesSelected = Cur.servicesSelected

\* the step changes the step of the flow at most
OnlyStep(step) == kvState' = [kvState EXCEPT !["k1"].step = step]

\* C27: from the confirm step, 'edit' and the choice of a field F in the
\* edit menu change only the step; the value then given for F (a text, a
\* staff button, a service toggle) leaves every other field of the draft
\* and, unless F is the services, the selected services as they were; and
\* 'back' in the edit menu returns to the confirm step with the draft and
\* the selection unchanged.
C27_EditChangesOneField ==
  [][(Pressed(Data("add:confirm_edit", "")) => OnlyStep("editField"))
     /\ (\A f \in EditButtons \ {"back"} :
           (Pressed(Data("add:edit_field:", f)) => OnlyStep(f))
           /\ ((ChoseField(f) /\ GivesValue(f)) => OnlyChanged(f)))
     /\ (Pressed(Data("add:edit_field:", "back")) => OnlyStep("confirm"))]_vars

\* the address was chosen in the edit menu opened from the confirmation and
\* a new address was stored
C27_Witness ==
  /\ ret.ev = ButtonOf("k1", Data("add:edit_field:", "address"), NoEnv)
  /\ ret.st = AddState("address", DraftAtConfirm, <<SERVICES[2], SERVICES[1]>>)
  /\ ev = TextOf("k1", <<" ", "t", "x", " ">>)
  /\ Cur.data = [DraftAtConfirm EXCEPT !["address"] = <<"t", "x">>]
  /\ Cur.servicesSelected = <<SERVICES[2], SERVICES[1]>>

----------------------------------------------------------------------------
(* A draft saved from the confirmation, and the searches that follow *)

\* the draft at the confirmation, with one service selected
DraftToSave == AddState("confirm", DraftAtConfirm, <<SERVICES[1]>>)

\* the provider answers with (32, -96), with a center on the other side of
\* the globe, with (0, 0), or with no coordinates
SaveEnvs ==
  {[geo |-> g, api |-> a] : g \in ProviderAnswers, a \in {"ok", "append fails"}}

CenterEnvs ==
  {[geo |-> g, api |-> a] :
     g \in ProviderAnswers \cup {[kind |-> "ok", c |-> <<32, 96>>],
                                 [kind |-> "ok", c |-> <<0, 0>>]},
     a \in {"ok", "rows read fails"}}

\* the store is empty or holds shops, and its rows may be cached
InitEndToEnd ==
  \E sh \in {<<HEADER>>, SearchSheet(1)} :
    \E cache \in {NoCache, [present |-> TRUE, rows |-> ParseRows(sh)]} :
      /\ kvState = [k \in Keys |-> IF k = "k1" THEN DraftToSave ELSE NoState]
      /\ sheet = sh
      /\ shopsCache = cache
      /\ geoCache = [k \in {} |-> GeoNull]
      /\ userAgent = TRUE
      /\ ev = NoEvent
      /\ out = <<>>
      /\ searchCache = [k \in Keys |-> NoResults]
      /\ ret = <<>>
      /\ clock = 0
      /\ lastNominatimRequestMs = 0
      /\ callers = <<>>
      /\ lookups = <<>>

\* 'save' is pressed at the confirmation
SaveDraft ==
  /\ kvState["k1"].flow = "add"
  /\ \E env \in SaveEnvs : ButtonEvent("k1", Save, env)

\* a city and state is sent outside the add flow
SearchCity(k) ==
  /\ kvState[k].flow # "add"
  /\ \E env \in CenterEnvs : SearchTextEvent(k, CityText, env)

NextEndToEnd == SaveDraft \/ (\E k \in Keys : SearchCity(k)) \/ RowsExpire

SpecEndToEnd == InitEndToEnd /\ [][NextEndToEnd]_vars

----------------------------------------------------------------------------
(* Properties of a save followed by searches *)

\* the row of the draft, saved with the coordinates c
SavedAt(c) == BuildRow(DraftToSave, GeoResult(c))

\* the store holds the saved row and no other
OnlySaved(c) == sheet = <<HEADER, SavedAt(c)>>

\* C28: when the add flow has saved a shop geocoded to the coordinates C
\* into an otherwise empty store, a search that computes its results around
\* a center equal to C finds exactly that shop, first in the list, at
\* distance 0, stores the list and shows it on the first page.
C28_SavedShopFoundFirst ==
  [][\A c \in {<<32, -96>>} :
       (ResultsComputed /\ OnlySaved(c)) =>
         \A sent \in {SentCity} : \A center \in {Center(sent)} :
           (center.lat = c[1] /\ center.lng = c[2]) =>
             \A found \in {<<[shop |-> parseRow(SavedAt(c)), distanceMiles |-> 0]>>} :
               /\ searchCache'["k1"].results = found
               /\ Before(out', StoreResultsEff,
                         FirstPage(found, sent.city \o <<", ">> \o sent.state))]_vars

\* the saved shop was found by a search that read the sheet after the save
C28_Witness ==
  /\ OnlySaved(<<32, -96>>)
  /\ kvState["k1"] = NoState
  /\ ev.kind = "text"
  /\ ev.key = "k1"
  /\ searchCache["k1"].present
  /\ searchCache["k1"].results[1].distanceMiles = 0
  /\ searchCache["k1"].results[1].shop.shopName = DraftAtConfirm["shopName"]
  /\ Count(out, ReadRowsReq) = 1

\* the row of the draft, saved after the geocoding gave no coordinates
SavedWithout == BuildRow(DraftToSave, GeoNull)

\* the rows of the store that hold no latitude or no longitude
RowsWithout ==
  {j \in 2..Len(sheet) : CellOr(sheet[j], 11) = <<>> \/ CellOr(sheet[j], 12) = <<>>}

\* the shop of a result is the shop of the row: the cells but the coordinates
SameShop(shop, row) ==
  \A c \in {parseRow(row)} :
    /\ shop.createdAtISO = c.createdAtISO
    /\ shop.shopName = c.shopName
    /\ shop.address = c.address
    /\ shop.notes = c.notes

\* C29: a shop saved after a failed geocode, with empty latitude and
\* longitude cells, is in the result set of no search, whatever center the
\* search resolves to: no stored result is the shop of a row without
\* coordinates.
C29_NoCoordinatesNeverFound ==
  \A k \in Keys : \A i \in 1..Len(searchCache[k].results) : \A j \in RowsWithout :
    ~SameShop(searchCache[k].results[i].shop, sheet[j])

\* the shop was saved without coordinates, and a later search read its row
\* and found other shops
C29_Witness ==
  /\ sheet[Len(sheet)] = SavedWithout
  /\ ev.kind = "text"
  /\ ev.env.geo = [kind |-> "ok", c |-> <<32, -96>>]
  /\ Count(out, ReadRowsReq) = 1
  /\ searchCache[ev.key].present

----------------------------------------------------------------------------
(* The service started without NOMINATIM_USER_AGENT: main.ts reads
   TELEGRAM_BOT_TOKEN and WEBHOOK_PATH when it starts, and getUserAgent is
   called by nominatimSearch, in the request *)

InitNoAgent ==
  /\ userAgent = FALSE
  /\ kvState = [k \in Keys |-> NoState]
  /\ sheet = <<HEADER>>
  /\ shopsCache = NoCache
  /\ geoCache = [k \in {} |-> GeoNull]
  /\ ev = NoEvent
  /\ out = <<>>
  /\ searchCache = [k \in Keys |-> NoResults]
  /\ ret = <<>>
  /\ clock = 0
  /\ lastNominatimRequestMs = 0
  /\ callers = <<>>
  /\ lookups = <<>>

SpecNoAgent == InitNoAgent /\ [][NextLinear]_vars

\* C30: when the client-agent string of the geocoding client is not
\* configured the service handles no event, and no save of the add flow
\* appends a record.
C30_NoEventWithoutAgent ==
  ~userAgent => (ev = NoEvent /\ DataRows(sheet) = <<>>)

----------------------------------------------------------------------------
(* Saves of a complete draft into sheets with any first row, with every
   answer of the provider and of the Sheets API *)

InitSaveFails ==
  /\ sheet \in FoundSheets
  /\ kvState = [k \in Keys |-> IF k = "k1" THEN DraftToSave ELSE NoState]
  /\ shopsCache = NoCache
  /\ geoCache = [k \in {} |-> GeoNull]
  /\ userAgent = TRUE
  /\ ev = NoEvent
  /\ out = <<>>
  /\ searchCache = [k \in Keys |-> NoResults]
  /\ ret = <<>>
  /\ clock = 0
  /\ lastNominatimRequestMs = 0
  /\ callers = <<>>
  /\ lookups = <<>>

\* 'save' is pressed at the confirmation, again after a failure
PressSave ==
  /\ kvState["k1"].flow = "add"
  /\ Len(sheet) < MaxRows
  /\ \E env \in Envs(kvState["k1"]) : ButtonEvent("k1", Save, env)

SpecSaveFails == InitSaveFails /\ [][PressSave]_vars

\* the save threw: a request of appendShopRow failed, or the header check
Threw(effects) == Count(effects, ThrowEff) > 0

\* C31: a save whose append fails (the append request, the read or update
\* of the header row before it, or the header check) leaves the stored
\* state of every key as it was and appends nothing, and a save pressed
\* after it with the store answering appends the row of that same draft.
C31_FailedSaveKeepsState ==
  [][(Pressed(Save) /\ Threw(out') =>
        /\ kvState' = kvState
        /\ DataRows(sheet') = DataRows(sheet)
        /\ Count(out', ClearEff) = 0)
     /\ ((Pressed(Save) /\ ev.data = Save /\ Threw(out) /\ ~Threw(out')) =>
           /\ Cur = DraftToSave
           /\ Len(sheet') = Len(WithHeader(sheet)) + 1
           /\ RowOfDraft(DraftToSave, sheet'[Len(sheet')])
           /\ kvState'["k1"] = NoState)]_vars

\* the append request failed and the draft is still at the confirmation
C31_Witness ==
  /\ ev.kind = "button"
  /\ ev.data = Save
  /\ ev.env.api = "append fails"
  /\ Before(out, AppendEff, ThrowEff)
  /\ Cur = DraftToSave
  /\ DataRows(sheet) = <<>>

----------------------------------------------------------------------------
(* The lifetime of the conversation state: kv.set(..., { expireIn: ttlMs })
   in setFlowState starts the 24 hours again, and only it does. The clock
   counts hours here; ret holds the hour at which the value of the key
   "k1" may expire and the hour of the last event handled for the key *)

ttlHours == 24
TickHours == 12
MaxHours == 48

InitExpiry ==
  /\ clock = 0
  /\ ret = [expires |-> 0, last |-> 0]
  /\ kvState = [k \in Keys |-> NoState]
  /\ sheet = <<HEADER>>
  /\ shopsCache = NoCache
  /\ geoCache = [k \in {} |-> GeoNull]
  /\ userAgent = TRUE
  /\ ev = NoEvent
  /\ out = <<>>
  /\ searchCache = [k \in Keys |-> NoResults]
  /\ lastNominatimRequestMs = 0
  /\ callers = <<>>
  /\ lookups = <<>>

\* the event e of the key "k1" is handled at the hour of the clock and
\* leaves r: a setFlowState among its effects sets the expiry anew
HandledAt(e, r) ==
  /\ ev' = e
  /\ kvState' = [kvState EXCEPT !["k1"] = r.st]
  /\ out' = r.out
  /\ ret' = [expires |-> IF Count(r.out, SetEff) > 0 THEN clock + ttlHours
                         ELSE ret.expires,
             last |-> clock]
  /\ UNCHANGED <<sheet, shopsCache, geoCache, userAgent, searchCache, throttleVars>>

\* the add flow is started from the menu
StartAt ==
  /\ kvState["k1"] = NoState
  /\ HandledAt(ButtonOf("k1", Data("menu:add", ""), NoEnv),
               onCallbackQuery(World("k1"), Data("menu:add", ""), NoEnv))

\* a text is sent to the add flow: a blank one is rejected
TextAt ==
  /\ kvState["k1"].flow = "add"
  /\ \E text \in TextsAt(kvState["k1"]) :
       HandledAt(TextOf("k1", text), onMessageText(World("k1"), text, NoEnv))

HoursPass ==
  /\ clock + TickHours <= MaxHours
  /\ clock' = clock + TickHours
  /\ UNCHANGED <<kvState, sheet, shopsCache, geoCache, userAgent, ev, out, searchCache,
                 ret, lastNominatimRequestMs, callers, lookups>>

\* the store removes the value of the key once its expireIn has passed
StateExpires ==
  /\ kvState["k1"] # NoState
  /\ clock >= ret.expires
  /\ kvState' = [kvState EXCEPT !["k1"] = NoState]
  /\ ev' = Expired
  /\ out' = <<>>
  /\ UNCHANGED <<sheet, shopsCache, geoCache, userAgent, searchCache, ret, throttleVars>>

NextExpiry == StartAt \/ TextAt \/ HoursPass \/ StateExpires

SpecExpiry == InitExpiry /\ [][NextExpiry]_vars

\* C32: a conversation state is removed by expiry only when at least 24
\* hours have passed since the most recent event handled for its key, an
\* event whose text was rejected by validation included.
C32_ExpiresAfterInactivity ==
  [][(ev' = Expired /\ Cur # NoState /\ kvState'["k1"] = NoState) =>
       clock - ret.last >= ttlHours]_vars

----------------------------------------------------------------------------
(* Properties of events that reach a flow from outside its prompts *)

SearchButtons == {"search:cancel", "search:menu", "search:page:"}

\* C33: a button of the search flow (search:cancel, search:menu,
\* search:page:N) handled while the key holds a state of the add flow
\* leaves the stored state of every key as it was.
C33_SearchButtonKeepsAddState ==
  [][(InAdd /\ ev'.kind = "button" /\ ev'.key = "k1" /\ ev'.data.p \in SearchButtons) =>
       kvState' = kvState]_vars

\* the last event handled was a search that completed without a result
\* list to show: no shop was found, or the city could not be geocoded
SearchFoundNothing ==
  /\ ev.kind = "text"
  /\ ev.key = "k1"
  /\ parseCityState(ev.text).matched
  /\ \A sent \in {parseCityState(ev.text)} :
       \/ Count(out, NoShopsFound(sent.city, sent.state)) = 1
       \/ Count(out, CouldNotGeocode(sent.city, sent.state)) = 1

\* C34: the results a page button shows belong to the most recent search
\* completed for the key: a page button pressed after a search that found
\* nothing or could not geocode its city shows no page of an earlier
\* search, it is answered with "Search results expired".
C34_PagesOfLatestSearch ==
  [][(SearchFoundNothing /\ ev'.kind = "button" /\ ev'.key = "k1"
        /\ ev'.data.p = "search:page:") =>
       out' = <<LoadResultsEff, Answer(ev'.data), ResultsExpired>>]_vars

\* C35: whatever texts and buttons were handled for the key, buttons of
\* the prompts of earlier steps included, when the add flow is at the
\* confirm step the seven required fields of the draft are non-empty.
C35_ConfirmHasRequiredFields ==
  (InAdd /\ Cur.step = "confirm") => Complete(Cur)

\* C36: a service toggle changes the selection only while the step is
\* services, and in every state whose step is notes, confirm or editField
\* the selection is non-empty.
C36_SelectionKeptAfterServices ==
  [][((InAdd /\ Cur.step # "services" /\ ev'.kind = "button"
         /\ ev'.data.p = "add:toggle_service:") =>
        kvState'["k1"] = Cur)
     /\ ((kvState'["k1"].flow = "add"
            /\ kvState'["k1"].step \in {"notes", "confirm", "editField"}) =>
          kvState'["k1"].servicesSelected # <<>>)]_vars


-----------------------------------------------------------------------------
(* Saves of one draft in flight together: each update runs the callback
   handler of main.ts on the state it read at getFlowState; the state is
   deleted only at the end of finalizeAndSave, after the append. ret holds
   the number of data rows the sheet had when the draft reached the
   confirmation *)

InitSaves ==
  /\ sheet \in FoundSheets
  /\ kvState = [k \in Keys |-> IF k = "k1" THEN DraftToSave ELSE NoState]
  /\ ret = [rows |-> Len(DataRows(sheet))]
  /\ callers = [h \in Handlers |-> Waiting]
  /\ shopsCache = NoCache
  /\ geoCache = [k \in {} |-> GeoNull]
  /\ userAgent = TRUE
  /\ ev = NoEvent
  /\ out = <<>>
  /\ searchCache = [k \in Keys |-> NoResults]
  /\ clock = 0
  /\ lastNominatimRequestMs = 0
  /\ lookups = <<>>

\* an update with add:confirm_save arrives: the handler up to
\* const state = await getFlowState(kv, chatId, userId)
SaveArrives(h) ==
  /\ callers[h].pc = "waiting"
  /\ callers' = [callers EXCEPT ![h] = [pc |-> "handling", data |-> Save,
                                         st |-> kvState["k1"]]]
  /\ UNCHANGED <<kvState, sheet, shopsCache, geoCache, userAgent, ev, out,
                 searchCache, ret, clock, lastNominatimRequestMs, lookups>>

\* the rest of the handler on the state it read: handleAddShopCallback and
\* finalizeAndSave, whose clearFlowState is the only write to the key
SaveOnCopy(h) ==
  /\ callers[h].pc = "handling"
  /\ \E env \in Envs(callers[h].st) :
       /\ \A r \in {onCallbackQuery(WorldWith(callers[h].st), Save, env)} :
            /\ kvState' = [kvState EXCEPT !["k1"] = IF WroteState(r.out) THEN r.st ELSE @]
            /\ sheet' = r.sheet
            /\ shopsCache' = r.shopsCache
            /\ geoCache' = r.geoCache
            /\ out' = r.out
       /\ ev' = ButtonOf("k1", Save, env)
  /\ callers' = [callers EXCEPT ![h] = Waiting]
  /\ UNCHANGED <<userAgent, searchCache, ret, clock, lastNominatimRequestMs, lookups>>

NextSaves ==
  \/ \E h \in Handlers : SaveArrives(h)
  \/ \E h \in Handlers : SaveOnCopy(h)

SpecSaves == InitSaves /\ [][NextSaves]_vars

\* C37: for one draft brought to the confirmation, the save events handled
\* for it, one after another or together, append at most one row to the
\* sheet.
C37_DraftSavedAtMostOnce ==
  Len(DataRows(sheet)) <= ret.rows + 1

====
